---- MODULE Spec2Model ----
(***************************************************************************)
(* ChefsEye: the recognition pipeline of src/services/visionService.ts     *)
(* (VisionCache, VisionService), src/services/aiVisionService.ts           *)
(* (AIVisionService), the OCR service (OCRService) and the product storage *)
(* of the App (src/utils/storage.ts) as state machines.                    *)
(*                                                                         *)
(* The specifications share one initial state:                             *)
(*   SpecCache     the VisionCache object driven by arbitrary set/get/has/ *)
(*                 clear calls while the clock advances;                   *)
(*   Spec          concurrent VisionService.detectProducts calls over the  *)
(*                 module-level visionCache;                               *)
(*   SpecLive      Spec with every awaited promise that can settle         *)
(*                 settling;                                               *)
(*   SpecAI        AIVisionService.init and detectProducts;                *)
(*   SpecAdapters  the response-processing functions, applied once;        *)
(*   SpecReceipt   OCRService.parseReceiptText;                            *)
(*   SpecAttempts  the provider attempts of callRealVisionAPI in time;     *)
(*   SpecOCR       concurrent OCRService.extractTextFromImage calls;       *)
(*   SpecAnalyze   VisionService.analyzeImage;                             *)
(*   SpecStorage   App.handleAddProduct over storage.addProduct.           *)
(***************************************************************************)
EXTENDS Integers, Sequences, FiniteSets

VARIABLES
    now,        \* Date.now(), in abstract clock units
    cache,      \* VisionCache.cache: the Map, as the sequence of its entries in insertion order
    subtle,     \* whether crypto.subtle.digest is available in this browser
    op,         \* the last VisionCache call made directly (SpecCache): its name, key, return value and removals
    pc,         \* VisionService.detectProducts, per call: the await the call is suspended at
    file,       \* per call: the File passed in
    proxyI,     \* per call: i, the index of the proxy loop of callRealVisionAPI
    result,     \* per call: the result in hand (pc = "hash2") or returned (pc = "done")
    err,        \* per call: the code of the error thrown to the caller
    hashKind,   \* per call: which branch of generateFileHash produced the last hash
    reqs,       \* per call: the provider endpoints requested, in order
    hashes,     \* per call: the number of generateFileHash calls
    cacheOps,   \* per call: the number of visionCache calls (has, get, set)
    aiToken,    \* AI_CONFIG.PRIMARY_TOKEN is a non-empty string
    aiKey,      \* AI_CONFIG.GOOGLE_API_KEY is a non-empty string
    aiPc,       \* AIVisionService.detectProducts: the await the call is suspended at
    aiFile,     \* the File passed in
    aiIdx,      \* the index of the loop over AI_CONFIG.FALLBACK_APIS
    aiTrace,    \* the provider attempts made, in order: tier, outcome, products
    aiResult,   \* the AIVisionResult returned: modelUsed and the number of products
    aiErr,      \* the message of the error thrown to the caller
    adapter,    \* the response-processing function that ran last
    response,   \* what it was given: the provider's response body, or the random draws
    products,   \* the products list it returned
    receiptText,  \* OCRService.parseReceiptText: the lines of the text it was given
    parsed,     \* the ReceiptParseResult it returned
    ocrPc,      \* OCRService.extractTextFromImage, per call: the await the call is suspended at
    ocrKey,     \* OCR_CONFIG.API_KEY
    ocrFile,    \* per call: the File passed in
    ocrReqs,    \* per call: the requests sent to OCR_CONFIG.API_URL, in order: the key of each
    ocrFrames,  \* per call: the tempKey of each callRealOCRAPI frame suspended in its retry
    ocrOut,     \* per call: where the text the call returned came from
    ocrCache,   \* ocrCache: the file hashes that have a text stored
    attempt,    \* callRealVisionAPI in time: the provider attempt in progress
    timers,     \* the setTimeout timers that are armed: the attempt and the deadline of each
    aborted,    \* the attempts whose AbortController has aborted their request
    image,      \* analyzeImage: the Image element made for the file, and whether its event has run
    imageAnalysis,  \* the promise analyzeImage returned: its state and the ImageAnalysis it holds
    stored,     \* storage: the product list persisted under DB_KEYS.PRODUCTS
    appProducts,  \* App: the products state
    addPc,      \* App.handleAddProduct, per product: the await the call is suspended at
    addRead     \* storage.addProduct, per product: its products list, read and pushed onto

(***************************************************************************)
(* Bounds of the model.  MAX_SIZE and TTL are the cache's two tunables     *)
(* (100 entries and 30 * 60 * 1000 ms in visionService.ts:78-79), scaled   *)
(* down so that a full cache and an expired entry are reachable.           *)
(***************************************************************************)
MAX_SIZE == 2
TTL == 2
MaxTime == 3
NKeys == 3
NVals == 1
NCalls == 2
NBytes == 2
MaxProducts == 1
TIMEOUT == 2
MaxNew == 2

(***************************************************************************)
(* Values.                                                                 *)
(***************************************************************************)
\* The string generateFileHash returns: the SHA-256 of the bytes (t = 0), or
\* one of the two weak fingerprints, which embed Date.now().
HashKey(kind, bytes, t) == [kind |-> kind, bytes |-> bytes, t |-> t]

\* JavaScript's undefined, as a key (getOldestKey of an empty Map).
NoKey == HashKey("undefined", 0, 0)

\* A VisionResult: the tier that produced it, its number of products, and the
\* call that built it (object identity: a call builds at most one result per tier).
VisionResult(tier, n, by) == [tier |-> tier, n |-> n, by |-> by]

\* JavaScript's undefined, as a result.
Undefined == VisionResult("undefined", 0, 0)

CacheEntry(k, v, t) == [key |-> k, result |-> v, timestamp |-> t]

Keys(c) == {c[i].key : i \in DOMAIN c}

EntryOf(c, k) == c[CHOOSE i \in DOMAIN c : c[i].key = k]

\* Map.prototype.delete
MapDelete(c, k) == SelectSeq(c, LAMBDA e : e.key # k)

\* Map.prototype.set: an existing key keeps its place in the iteration order.
MapSet(c, k, e) ==
    IF k \in Keys(c)
    THEN [i \in DOMAIN c |-> IF c[i].key = k THEN e ELSE c[i]]
    ELSE Append(c, e)

(***************************************************************************)
(* VisionCache (visionService.ts:76-142).                                  *)
(***************************************************************************)
\* cleanup(): drops the entries strictly older than TTL.
cleanup(c, t) == SelectSeq(c, LAMBDA e : ~(t - e.timestamp > TTL))

\* A getOldestKey that returns the key with the largest timestamp instead.
getNewestKey(c) ==
    IF c = <<>> THEN NoKey
    ELSE LET i == CHOOSE i \in DOMAIN c :
                    /\ \A j \in DOMAIN c : c[i].timestamp >= c[j].timestamp
                    /\ \A j \in 1..(i - 1) : c[j].timestamp < c[i].timestamp
         IN c[i].key

\* getOldestKey(): the first key, in iteration order, with the smallest timestamp.
getOldestKey(c) ==
    IF c = <<>> THEN NoKey
    ELSE LET i == CHOOSE i \in DOMAIN c :
                    /\ \A j \in DOMAIN c : c[i].timestamp <= c[j].timestamp
                    /\ \A j \in 1..(i - 1) : c[j].timestamp > c[i].timestamp
         IN c[i].key

\* A capacity step that deletes only above MAX_SIZE.
evictAboveMax(c) ==
    IF Len(c) > MAX_SIZE THEN MapDelete(c, getOldestKey(c)) ELSE c

\* The capacity step of set(): at MAX_SIZE or above, the oldest key is deleted.
evictIfFull(c) ==
    IF Len(c) >= MAX_SIZE
    THEN LET oldestKey == getOldestKey(c)
         IN IF oldestKey # NoKey THEN MapDelete(c, oldestKey) ELSE c
    ELSE c

\* set(key, value) at time t.
VisionCache_set(c, k, v, t) ==
    MapSet(evictIfFull(cleanup(c, t)), k, CacheEntry(k, v, t))

\* A get that never looks at the timestamp.
getIgnoringTTL(c, k, t) ==
    IF k \in Keys(c)
    THEN [ret |-> EntryOf(c, k).result, cache |-> c]
    ELSE [ret |-> Undefined, cache |-> c]

\* A get that leaves an expired entry in the Map.
getKeepingExpired(c, k, t) ==
    IF k \in Keys(c) /\ t - EntryOf(c, k).timestamp < TTL
    THEN [ret |-> EntryOf(c, k).result, cache |-> c]
    ELSE [ret |-> Undefined, cache |-> c]

\* get(key) at time t: the value returned and the Map afterwards.
VisionCache_get(c, k, t) ==
    IF k \in Keys(c) /\ t - EntryOf(c, k).timestamp < TTL
    THEN [ret |-> EntryOf(c, k).result, cache |-> c]
    ELSE IF k \in Keys(c)
         THEN [ret |-> Undefined, cache |-> MapDelete(c, k)]
         ELSE [ret |-> Undefined, cache |-> c]

\* has(key) at time t: get(key) !== undefined.
VisionCache_has(c, k, t) ==
    LET g == VisionCache_get(c, k, t)
    IN [ret |-> g.ret # Undefined, cache |-> g.cache]

\* clear()
VisionCache_clear(c) == <<>>

\* size()
VisionCache_size(c) == Len(c)

(***************************************************************************)
(* SpecCache: the cache under arbitrary calls.                             *)
(***************************************************************************)
CacheKeys == {HashKey("sha256", b, 0) : b \in 1..NKeys}

CacheValues == {VisionResult("google", 1, b) : b \in 1..NVals}

\* The record of a cache call: ret is what get returned (or set stored), found
\* what has returned; evicted are the keys set removed for capacity, dropped the
\* keys removed as stale (by cleanup, or by get and has on the key looked up).
CacheOp(name, k, ret, found, evicted, dropped) ==
    [name |-> name, key |-> k, ret |-> ret, found |-> found,
     evicted |-> evicted, dropped |-> dropped]

\* An AIVisionResult: the modelUsed tag and the number of products.
AIResult(modelUsed, n) == [modelUsed |-> modelUsed, n |-> n]

NoAIResult == AIResult("none", 0)

NoOp == CacheOp("none", NoKey, Undefined, FALSE, {}, {})

\* let total: number | undefined (part_002:107): the total not set.  Totals
\* are in hundredths, so no total is negative.
NoTotal == -1

\* A ReceiptParseResult (part_002:9-14).
ReceiptParseResult(ps, store, total, date) ==
    [products |-> ps, store |-> store, total |-> total, date |-> date]

\* parseReceiptText has not returned.
NotParsed == ReceiptParseResult(<<>>, "none", NoTotal, "none")

\* OCR_CONFIG (part_002:17-23): the two keys.
API_KEY == "K88937697488957"

FALLBACK_KEY == "helloworld"

\* One provider attempt of callRealVisionAPI: the position of its endpoint in
\* the order of the tiers, the await it is suspended at and the time its timer
\* was armed.
Attempt(tier, phase, started) == [tier |-> tier, phase |-> phase, started |-> started]
NoAttempt == Attempt(0, "none", 0)

\* setTimeout(() => controller.abort(), VISION_CONFIG.TIMEOUT) of the attempt
\* of a tier, armed at time t.
Timer(tier, t) == [tier |-> tier, deadline |-> t + TIMEOUT]

\* The Image element analyzeImage creates for a file: whether the content
\* decodes, img.width and img.height once loaded, whether
\* canvas.getContext('2d') gives a context, the grey level of its pixels, and
\* whether its load or error event has been dispatched.
Image(decodes, width, height, ctx, grey, handled) ==
    [decodes |-> decodes, width |-> width, height |-> height, ctx |-> ctx,
     grey |-> grey, handled |-> handled]
NoImage == Image(FALSE, 0, 0, FALSE, 0, FALSE)

\* The ImageAnalysis fields the callers read: width, height,
\* colorAnalysis.averageBrightness, isDarkBackground and the number of
\* dominantColors.
ImageAnalysis(width, height, averageBrightness, isDarkBackground, dominantColors) ==
    [width |-> width, height |-> height, averageBrightness |-> averageBrightness,
     isDarkBackground |-> isDarkBackground, dominantColors |-> dominantColors]
NoAnalysis == ImageAnalysis(0, 0, 0, FALSE, 0)

\* The products App adds: 0 is entered by hand (ManualInput), 1 .. MaxNew are
\* the ones a receipt or photo view hands over together.
NewProducts == 0..MaxNew

\* A promise: "none" before it is made, then "pending", "resolved" or
\* "rejected".
Promise(state, value) == [state |-> state, value |-> value]

(***************************************************************************)
(* VisionService (visionService.ts:145-860).                               *)
(***************************************************************************)
Calls == 1..NCalls

\* imageFile.size > 10 * 1024 * 1024 is rejected.
MaxFileSize == 10 * 1024 * 1024

\* A File: its MIME type as <<major, minor>> ("image/png" is <<"image", "png">>),
\* its size in bytes and its content.
Types == {<<"image", "png">>, <<"text", "plain">>}

Sizes == {MaxFileSize, MaxFileSize + 1}

Files == [type : Types, size : Sizes, bytes : 1..NBytes]

NoFile == [type |-> <<"", "">>, size |-> 0, bytes |-> 0]

\* imageFile.type.startsWith('image/')
IsImageType(f) == f.type[1] = "image"

\* The files handed to detectProducts: every valid one, and the invalid ones
\* of one content (what a rejected file holds is never read).
Uploads == {f \in Files : (IsImageType(f) /\ f.size <= MaxFileSize) \/ f.bytes = 1}

\* A validation that checks the type only.
typeCheckOnly(f) == IsImageType(f)

\* The two checks at the head of detectProducts: TRUE when neither throws.
passesValidation(f) == IsImageType(f) /\ ~(f.size > MaxFileSize)

\* VISION_CONFIG.FALLBACK_URLS.length
NumFallbackUrls == 3

\* The tier of the proxy VISION_CONFIG.FALLBACK_URLS[i], as it is written in
\* a call's requests and in the result parsed from its response.
ProxyTier(i) == <<"proxy-0", "proxy-1", "proxy-2">>[i + 1]

\* The tier of a result of createRealisticSimulation: which handler of the
\* image settled analyzeImage.
HeuristicTier(outcome) == IF outcome = "onload" THEN "heuristic-onload" ELSE "heuristic-onerror"

\* A generateFileHash whose every string embeds Date.now().
timedFileHash(f, readable, available, t) ==
    HashKey(IF ~readable THEN "fallback-hash"
            ELSE IF available THEN "sha256" ELSE "simple-hash", f.bytes, t + 1)

\* generateFileHash: the SHA-256 of the bytes; without crypto.subtle, or when
\* reading the file throws, a string built from size, name and Date.now()
\* (the files of the model differ in name exactly when they differ in content).
\* readable: file.arrayBuffer() resolved; available: crypto.subtle is there.
generateFileHash(f, readable, available, t) ==
    IF ~readable THEN HashKey("fallback-hash", f.bytes, t)
    ELSE IF available THEN HashKey("sha256", f.bytes, 0)
    ELSE HashKey("simple-hash", f.bytes, t)

\* demoVisionProcessing: productCount = Math.floor(Math.random() * 3) + 3
DemoCounts == {3, 4, 5}

\* createBasicSimulation: the two fixed items.
BasicCount == 2

\* The catch at lines 201-210: a VisionServiceError is thrown on to the caller,
\* any other error ("Error") ends in demoVisionProcessing.
VisionErrorCodes ==
    {"INVALID_FILE", "API_UNAVAILABLE", "NETWORK_ERROR", "PROCESSING_ERROR", "CACHE_ERROR"}

outerCatch(code) ==
    IF code \in VisionErrorCodes
    THEN [pc |-> "thrown", err |-> code]
    ELSE [pc |-> "demo", err |-> "none"]

\* A catch that wraps the error into a VisionServiceError and throws it.
rethrowAsUnavailable(code) == [pc |-> "thrown", err |-> "API_UNAVAILABLE"]

\* The catch at lines 196-200, around callRealVisionAPI: every error ends in
\* demoVisionProcessing.
innerCatch(code) == [pc |-> "demo", err |-> "none"]

\* A condition that stores every result.
storesAnyResult(r) == TRUE

\* detectProducts, lines 179-194: a non-empty result is stored and returned
\* (after the second generateFileHash); an empty one sends the call to the demo.
storesResult(r) == r.n > 0

AfterVisionAPI(p, r) ==
    /\ result' = [result EXCEPT ![p] = r]
    /\ pc' = [pc EXCEPT ![p] = IF storesResult(r) THEN "hash2" ELSE "demo"]

Init ==
    /\ now = 0
    /\ subtle \in BOOLEAN
    /\ cache = <<>>
    /\ op = NoOp
    /\ pc = [p \in Calls |-> "idle"]
    /\ file = [p \in Calls |-> NoFile]
    /\ proxyI = [p \in Calls |-> 0]
    /\ result = [p \in Calls |-> Undefined]
    /\ err = [p \in Calls |-> "none"]
    /\ hashKind = [p \in Calls |-> "none"]
    /\ reqs = [p \in Calls |-> <<>>]
    /\ hashes = [p \in Calls |-> 0]
    /\ cacheOps = [p \in Calls |-> 0]
    /\ aiToken = FALSE
    /\ aiKey = FALSE
    /\ aiPc = "idle"
    /\ aiFile = NoFile
    /\ aiIdx = 0
    /\ aiTrace = <<>>
    /\ aiResult = NoAIResult
    /\ aiErr = "none"
    /\ adapter = "none"
    /\ response = <<>>
    /\ products = <<>>
    /\ receiptText = <<>>
    /\ parsed = NotParsed
    /\ ocrPc = [p \in Calls |-> "idle"]
    /\ ocrKey = API_KEY
    /\ ocrFile = [p \in Calls |-> NoFile]
    /\ ocrReqs = [p \in Calls |-> <<>>]
    /\ ocrFrames = [p \in Calls |-> <<>>]
    /\ ocrOut = [p \in Calls |-> "none"]
    /\ ocrCache = {}
    /\ attempt = NoAttempt
    /\ timers = {}
    /\ aborted = {}
    /\ image = NoImage
    /\ imageAnalysis = Promise("none", NoAnalysis)
    /\ stored = <<>>
    /\ appProducts = <<>>
    /\ addPc = [a \in NewProducts |-> "idle"]
    /\ addRead = [a \in NewProducts |-> <<>>]

adapterVars == <<adapter, response, products>>

ocrCallVars == <<ocrPc, ocrKey, ocrFile, ocrReqs, ocrFrames, ocrOut, ocrCache>>

ocrVars == <<receiptText, parsed, ocrCallVars>>

timerVars == <<attempt, timers, aborted>>

analyzeVars == <<image, imageAnalysis>>

storageVars == <<stored, appProducts, addPc, addRead>>

aiVars == <<aiToken, aiKey, aiPc, aiFile, aiIdx, aiTrace, aiResult, aiErr>>

callVars == <<subtle, pc, file, proxyI, result, err, hashKind, reqs, hashes, cacheOps>>

Tick ==
    /\ now < MaxTime
    /\ now' = now + 1
    /\ UNCHANGED <<cache, op, callVars, aiVars, adapterVars, ocrVars, timerVars, analyzeVars, storageVars>>

CacheSet(k, v) ==
    /\ cache' = VisionCache_set(cache, k, v, now)
    /\ op' = CacheOp("set", k, v, FALSE,
                     Keys(cleanup(cache, now)) \ Keys(cache'),
                     Keys(cache) \ Keys(cleanup(cache, now)))
    /\ UNCHANGED <<now, callVars, aiVars, adapterVars, ocrVars, timerVars, analyzeVars, storageVars>>

CacheGet(k) ==
    /\ cache' = VisionCache_get(cache, k, now).cache
    /\ op' = CacheOp("get", k, VisionCache_get(cache, k, now).ret, FALSE,
                     {}, Keys(cache) \ Keys(cache'))
    /\ UNCHANGED <<now, callVars, aiVars, adapterVars, ocrVars, timerVars, analyzeVars, storageVars>>

CacheHas(k) ==
    /\ cache' = VisionCache_has(cache, k, now).cache
    /\ op' = CacheOp("has", k, Undefined, VisionCache_has(cache, k, now).ret,
                     {}, Keys(cache) \ Keys(cache'))
    /\ UNCHANGED <<now, callVars, aiVars, adapterVars, ocrVars, timerVars, analyzeVars, storageVars>>

CacheClear ==
    /\ cache' = VisionCache_clear(cache)
    /\ op' = CacheOp("clear", NoKey, Undefined, FALSE, {}, {})
    /\ UNCHANGED <<now, callVars, aiVars, adapterVars, ocrVars, timerVars, analyzeVars, storageVars>>

vars == <<now, cache, op, subtle, pc, file, proxyI, result, err, hashKind, reqs, hashes, cacheOps,
          aiToken, aiKey, aiPc, aiFile, aiIdx, aiTrace, aiResult, aiErr,
          adapter, response, products,
          receiptText, parsed, ocrPc, ocrKey, ocrFile, ocrReqs, ocrFrames, ocrOut, ocrCache,
          attempt, timers, aborted, image, imageAnalysis,
          stored, appProducts, addPc, addRead>>

NextCache ==
    \/ Tick
    \/ \E k \in CacheKeys, v \in CacheValues : CacheSet(k, v)
    \/ \E k \in CacheKeys : CacheGet(k)
    \/ \E k \in CacheKeys : CacheHas(k)
    \/ CacheClear

SpecCache == Init /\ [][NextCache]_vars

(***************************************************************************)
(* Properties of VisionCache, checked under SpecCache.  A step of SpecCache *)
(* that leaves the clock alone is one cache call, named by op'.             *)
(***************************************************************************)
CacheCall(name) == now' = now /\ op'.name = name

\* No entry of c is older than TTL at time t (cleanup would remove none).
NoneStale(c, t) == \A i \in DOMAIN c : ~(t - c[i].timestamp > TTL)

\* C6, second half: a set of a key that is not in the cache, into a cache that
\* holds MAX_SIZE entries none of which is older than TTL, leaves exactly
\* MAX_SIZE entries, the new key among them.
C6_FullInsert ==
    (/\ CacheCall("set")
     /\ Len(cache) = MAX_SIZE
     /\ op'.key \notin Keys(cache)
     /\ NoneStale(cache, now))
    => (Len(cache') = MAX_SIZE /\ op'.key \in Keys(cache'))

\* C6: after any sequence of set/get/has/clear calls the cache holds at most
\* MAX_SIZE entries, and inserting one more distinct key into a full cache
\* within TTL leaves exactly MAX_SIZE entries.
C6_CacheBound == [](Len(cache) <= MAX_SIZE) /\ [][C6_FullInsert]_vars

\* A set has just evicted for capacity from a full cache with nothing stale.
C6_Witness ==
    /\ op.name = "set"
    /\ op.evicted # {}
    /\ op.dropped = {}
    /\ Len(cache) = MAX_SIZE

\* C7, first half: a set of a new key into a full cache with nothing stale
\* removes exactly one key, one whose timestamp no other entry's is below,
\* and leaves every other entry as it was.
C7_Victim ==
    (/\ CacheCall("set")
     /\ Len(cache) = MAX_SIZE
     /\ op'.key \notin Keys(cache)
     /\ NoneStale(cache, now))
    => \E k \in Keys(cache) :
          /\ Keys(cache) \ Keys(cache') = {k}
          /\ \A j \in DOMAIN cache : EntryOf(cache, k).timestamp <= cache[j].timestamp
          /\ \A k2 \in Keys(cache) \ {k} : EntryOf(cache', k2) = EntryOf(cache, k2)

\* C7, second half: get and has leave every entry that stays in the cache
\* as it was, its timestamp included, and add none.
C7_ReadsKeepTimestamps ==
    (CacheCall("get") \/ CacheCall("has"))
    => /\ Keys(cache') \subseteq Keys(cache)
       /\ \A k \in Keys(cache') : EntryOf(cache', k) = EntryOf(cache, k)

\* C7: the entry evicted for capacity is the single one with the smallest
\* timestamp, and reading an entry never changes its timestamp.
C7_EvictionVictim == [][C7_Victim /\ C7_ReadsKeepTimestamps]_vars

\* A set has evicted one key for capacity and a younger entry that was
\* stored before this set survived.
C7_Witness ==
    /\ op.name = "set"
    /\ Cardinality(op.evicted) = 1
    /\ op.dropped = {}
    /\ \E i \in DOMAIN cache : cache[i].key # op.key /\ cache[i].timestamp > 0

\* C8, on a get: an entry younger than TTL is returned, an entry older than
\* TTL is not.
C8_Get ==
    (CacheCall("get") /\ op'.key \in Keys(cache))
    => LET e == EntryOf(cache, op'.key)
       IN /\ now < e.timestamp + TTL => op'.ret = e.result
          /\ now > e.timestamp + TTL =>
                (op'.ret = Undefined /\ op'.key \notin Keys(cache'))

\* C8, between set and get: an entry younger than TTL leaves the cache only
\* by clear, by a set of its own key, or by a set into a full cache.
C8_Stays ==
    \A i \in DOMAIN cache :
        (/\ now - cache[i].timestamp < TTL
         /\ ~CacheCall("clear")
         /\ ~(CacheCall("set") /\ (op'.key = cache[i].key \/ Len(cache) >= MAX_SIZE)))
        => \E j \in DOMAIN cache' : cache'[j] = cache[i]

\* C8: an entry set at time T, not cleared and not evicted for capacity, is
\* returned by get at every time before T + TTL and by no get after T + TTL.
C8_TTLExpiry == [][C8_Get /\ C8_Stays]_vars

\* A get has found its entry expired and removed it.
C8_Witness == op.name = "get" /\ op.key \in op.dropped /\ op.ret = Undefined

\* A get or has of a key whose entry is older than TTL answers absent,
\* removes that entry and leaves every other entry as it was.
C27_Lookup ==
    (/\ CacheCall("get") \/ CacheCall("has")
     /\ op'.key \in Keys(cache)
     /\ now - EntryOf(cache, op'.key).timestamp > TTL)
    => /\ op'.ret = Undefined
       /\ ~op'.found
       /\ Keys(cache') = Keys(cache) \ {op'.key}
       /\ \A k \in Keys(cache') : EntryOf(cache', k) = EntryOf(cache, k)

\* C27: a get or has of a key whose entry is older than TTL returns absent
\* and removes that entry as a side effect, leaving the entries of all other
\* keys unchanged.
C27_LazyExpiry == [][C27_Lookup]_vars

\* A has has found its entry expired and removed it, and another entry stays.
C27_Witness == op.name = "has" /\ op.key \in op.dropped /\ ~op.found /\ cache # <<>>

\* After a set, get would treat no entry of the cache as expired.
C28_AfterSet ==
    CacheCall("set") => \A i \in DOMAIN cache' : now - cache'[i].timestamp < TTL

\* C28: the sweep at the start of every set removes all stale entries: right
\* after a set the cache holds no entry that get would treat as expired at
\* that instant, an entry whose age is exactly TTL included.
C28_EagerSweep == [][C28_AfterSet]_vars

\* A set of a key that is present keeps every entry of another key that get
\* would still serve.
C38_Overwrite ==
    (CacheCall("set") /\ op'.key \in Keys(cache))
    => \A k \in Keys(cache) \ {op'.key} :
           now - EntryOf(cache, k).timestamp < TTL
           => k \in Keys(cache') /\ EntryOf(cache', k) = EntryOf(cache, k)

\* C38: VisionCache.set(k, v) for a key k that is already present never
\* removes an unexpired entry stored under a different key, even when the
\* cache is at MAX_SIZE.
C38_OverwriteKeepsOthers == [][C38_Overwrite]_vars

(***************************************************************************)
(* Spec: concurrent VisionService.detectProducts calls.  Each action is    *)
(* the code a call runs between two awaits.                                *)
(***************************************************************************)
cacheVars == <<now, cache>>

\* detectProducts is called with f: the validation (lines 148-161) runs before
\* the first await.  Calls start in the order of their numbers.
Start(p, f) ==
    /\ pc[p] = "idle"
    /\ \A q \in 1..(p - 1) : pc[q] # "idle"
    /\ file' = [file EXCEPT ![p] = f]
    /\ IF passesValidation(f)
       THEN /\ pc' = [pc EXCEPT ![p] = "hash1"]
            /\ err' = err
       ELSE /\ pc' = [pc EXCEPT ![p] = outerCatch("INVALID_FILE").pc]
            /\ err' = [err EXCEPT ![p] = outerCatch("INVALID_FILE").err]
    /\ UNCHANGED <<now, cache, op, subtle, proxyI, result, hashKind, reqs, hashes, cacheOps, aiVars, adapterVars, ocrVars, timerVars, analyzeVars, storageVars>>

\* Lines 164-172: generateFileHash resolves with a string of the given kind;
\* has(fileHash) runs, and on a hit get(fileHash) is returned.  Date.now() may
\* advance by d between the two calls.
CacheCheck(p, readable, d) ==
    /\ pc[p] = "hash1"
    /\ now + d <= MaxTime
    /\ LET k == generateFileHash(file[p], readable, subtle, now)
           h == VisionCache_has(cache, k, now)
           g == VisionCache_get(h.cache, k, now + d)
       IN /\ hashKind' = [hashKind EXCEPT ![p] = k.kind]
          /\ hashes' = [hashes EXCEPT ![p] = @ + 1]
          /\ IF h.ret
             THEN /\ cache' = g.cache
                  /\ now' = now + d
                  /\ result' = [result EXCEPT ![p] = g.ret]
                  /\ pc' = [pc EXCEPT ![p] = "done"]
                  /\ cacheOps' = [cacheOps EXCEPT ![p] = @ + 2]
             ELSE /\ d = 0
                  /\ cache' = h.cache
                  /\ now' = now
                  /\ result' = result
                  /\ pc' = [pc EXCEPT ![p] = "base64"]
                  /\ cacheOps' = [cacheOps EXCEPT ![p] = @ + 1]
    /\ UNCHANGED <<op, subtle, file, proxyI, err, reqs, aiVars, adapterVars, ocrVars, timerVars, analyzeVars, storageVars>>

\* callRealVisionAPI, line 327: fileToBase64 resolves, or rejects (reader.onerror);
\* the rejection is caught at line 196 and the call goes to the demo.
FileToBase64(p, ok) ==
    /\ pc[p] = "base64"
    /\ pc' = [pc EXCEPT ![p] = IF ok THEN "google" ELSE innerCatch("Error").pc]
    /\ err' = [err EXCEPT ![p] = IF ok THEN @ ELSE innerCatch("Error").err]
    /\ UNCHANGED <<cacheVars, op, subtle, file, proxyI, result, hashKind, reqs, hashes, cacheOps, aiVars, adapterVars, ocrVars, timerVars, analyzeVars, storageVars>>

\* Lines 349-392: the Google Vision request and its outcome.  "fail" is a timeout
\* abort, a network error, a non-2xx status, data.error or a response that
\* processVisionResponse throws on; "empty" is a response with no product left.
GoogleVision(p, outcome, n) ==
    /\ pc[p] = "google"
    /\ reqs' = [reqs EXCEPT ![p] = Append(@, "google")]
    /\ IF outcome = "ok"
       THEN /\ AfterVisionAPI(p, VisionResult("google", n, p))
            /\ proxyI' = proxyI
       ELSE /\ pc' = [pc EXCEPT ![p] = "proxy"]
            /\ proxyI' = [proxyI EXCEPT ![p] = 0]
            /\ result' = result
    /\ UNCHANGED <<cacheVars, op, subtle, file, err, hashKind, hashes, cacheOps, aiVars, adapterVars, ocrVars, timerVars, analyzeVars, storageVars>>

\* Lines 394-436: one turn of the proxy loop.
Proxy(p, outcome, n) ==
    /\ pc[p] = "proxy"
    /\ proxyI[p] < NumFallbackUrls
    /\ reqs' = [reqs EXCEPT ![p] = Append(@, ProxyTier(proxyI[p]))]
    /\ IF outcome = "ok"
       THEN /\ AfterVisionAPI(p, VisionResult(ProxyTier(proxyI[p]), n, p))
            /\ proxyI' = proxyI
       ELSE /\ proxyI' = [proxyI EXCEPT ![p] = @ + 1]
            /\ pc' = [pc EXCEPT ![p] =
                        IF proxyI[p] + 1 < NumFallbackUrls THEN "proxy" ELSE "huggingface"]
            /\ result' = result
    /\ UNCHANGED <<cacheVars, op, subtle, file, err, hashKind, hashes, cacheOps, aiVars, adapterVars, ocrVars, timerVars, analyzeVars, storageVars>>

\* callHuggingFaceAPI, lines 600-645.  "unread": fileToBase64 rejects and no
\* request is sent; "fail": the request fails; both are caught at line 638 and
\* lead to createRealisticSimulation.  A response that parses is returned as it
\* is, with n products (n = 0 included).
HuggingFace(p, outcome, n) ==
    /\ pc[p] = "huggingface"
    /\ reqs' = [reqs EXCEPT ![p] = IF outcome = "unread" THEN @ ELSE Append(@, "huggingface")]
    /\ IF outcome = "parsed"
       THEN AfterVisionAPI(p, VisionResult("huggingface", n, p))
       ELSE /\ pc' = [pc EXCEPT ![p] = "analyze"]
            /\ result' = result
    /\ UNCHANGED <<cacheVars, op, subtle, file, proxyI, err, hashKind, hashes, cacheOps, aiVars, adapterVars, ocrVars, timerVars, analyzeVars, storageVars>>

\* createRealisticSimulation, lines 673-692: analyzeImage resolves (img.onload
\* or img.onerror) and detectProductsFromAnalysis yields n products, or an
\* exception is caught at line 688 and createBasicSimulation is returned.
\* "onloadThrows": img.onload throws before it calls resolve (getImageData,
\* line 711); the promise of analyzeImage never settles and the call stays
\* suspended at line 676.
AnalyzeImage(p, outcome, n) ==
    /\ pc[p] = "analyze"
    /\ IF outcome = "onloadThrows"
       THEN /\ pc' = [pc EXCEPT ![p] = "pending"]
            /\ result' = result
       ELSE IF outcome = "throws"
       THEN AfterVisionAPI(p, VisionResult("basic", BasicCount, p))
       ELSE AfterVisionAPI(p, VisionResult(HeuristicTier(outcome), n, p))
    /\ UNCHANGED <<cacheVars, op, subtle, file, proxyI, err, hashKind, reqs, hashes, cacheOps, aiVars, adapterVars, ocrVars, timerVars, analyzeVars, storageVars>>

\* Lines 181-189: the second generateFileHash resolves, the result is stored
\* and returned.
StoreResult(p, readable) ==
    /\ pc[p] = "hash2"
    /\ LET k == generateFileHash(file[p], readable, subtle, now)
       IN /\ hashKind' = [hashKind EXCEPT ![p] = k.kind]
          /\ cache' = VisionCache_set(cache, k, result[p], now)
    /\ hashes' = [hashes EXCEPT ![p] = @ + 1]
    /\ cacheOps' = [cacheOps EXCEPT ![p] = @ + 1]
    /\ pc' = [pc EXCEPT ![p] = "done"]
    /\ UNCHANGED <<now, op, subtle, file, proxyI, result, err, reqs, aiVars, adapterVars, ocrVars, timerVars, analyzeVars, storageVars>>

\* demoVisionProcessing, lines 213-275, returned at lines 194 and 199.
Demo(p, n) ==
    /\ pc[p] = "demo"
    /\ result' = [result EXCEPT ![p] = VisionResult("demo", n, p)]
    /\ pc' = [pc EXCEPT ![p] = "done"]
    /\ UNCHANGED <<cacheVars, op, subtle, file, proxyI, err, hashKind, reqs, hashes, cacheOps, aiVars, adapterVars, ocrVars, timerVars, analyzeVars, storageVars>>

\* VisionService.clearCache(), lines 1223-1226.
ClearCache ==
    /\ cache' = VisionCache_clear(cache)
    /\ UNCHANGED <<now, op, callVars, aiVars, adapterVars, ocrVars, timerVars, analyzeVars, storageVars>>

Next ==
    \/ Tick
    \/ ClearCache
    \/ \E p \in Calls, f \in Uploads : Start(p, f)
    \/ \E p \in Calls, readable \in BOOLEAN, d \in {0, 1} : CacheCheck(p, readable, d)
    \/ \E p \in Calls, ok \in BOOLEAN : FileToBase64(p, ok)
    \/ \E p \in Calls, n \in 1..MaxProducts : GoogleVision(p, "ok", n)
    \/ \E p \in Calls, outcome \in {"fail", "empty"} : GoogleVision(p, outcome, 0)
    \/ \E p \in Calls, n \in 1..MaxProducts : Proxy(p, "ok", n)
    \/ \E p \in Calls, outcome \in {"fail", "empty"} : Proxy(p, outcome, 0)
    \/ \E p \in Calls, n \in 0..MaxProducts : HuggingFace(p, "parsed", n)
    \/ \E p \in Calls, outcome \in {"unread", "fail"} : HuggingFace(p, outcome, 0)
    \/ \E p \in Calls, outcome \in {"onload", "onerror"}, n \in 0..MaxProducts :
            AnalyzeImage(p, outcome, n)
    \/ \E p \in Calls : AnalyzeImage(p, "throws", 0)
    \/ \E p \in Calls : AnalyzeImage(p, "onloadThrows", 0)
    \/ \E p \in Calls, readable \in BOOLEAN : StoreResult(p, readable)
    \/ \E p \in Calls, n \in DemoCounts : Demo(p, n)

Spec == Init /\ [][Next]_vars

\* The awaits of detectProducts whose promise settles: the hashes, the file
\* read, the provider requests, the analysis while its image has not loaded,
\* and the timer of the demo.
Awaiting == {"hash1", "base64", "google", "proxy", "huggingface", "analyze", "hash2", "demo"}

Positions == Awaiting \cup {"pending", "done", "thrown"}

\* Every step of a call changes its position: pc, or the index of the proxy
\* loop.
position == <<pc, proxyI>>

\* The promise call p awaits settles and the call moves on.
Settle(p) ==
    /\ pc[p] \in Awaiting
    /\ \E at \in Positions : pc' = [pc EXCEPT ![p] = at]
    /\ \E i \in 0..NumFallbackUrls : proxyI' = [proxyI EXCEPT ![p] = i]

\* SpecLive: Spec under the assumption that every promise a call awaits and
\* that can settle does settle: file reads, hashes, the demo's timer, and
\* every network request (which resolves, rejects or is aborted).
SpecLive == Spec /\ \A p \in Calls : WF_position(Settle(p))

(***************************************************************************)
(* Properties of VisionService.detectProducts, checked under Spec.         *)
(***************************************************************************)
\* The file is one the validation is meant to accept.
ValidFile(f) == f.type[1] = "image" /\ f.size <= MaxFileSize

C4_Rejected ==
    \A p \in Calls :
        (pc[p] # "idle" /\ (file[p].type[1] # "image" \/ file[p].size > MaxFileSize))
        => /\ pc[p] = "thrown"
           /\ err[p] = "INVALID_FILE"
           /\ hashes[p] = 0
           /\ cacheOps[p] = 0
           /\ reqs[p] = <<>>

\* C4, as a step: the step in which a call throws leaves the cache as it was.
C4_CacheUntouched ==
    \A p \in Calls : (pc[p] # "thrown" /\ pc'[p] = "thrown") => cache' = cache

\* C4: a file that is not an image or exceeds 10MB is rejected with
\* INVALID_FILE before any hash, cache call or provider request, and the
\* rejected call leaves the cache unchanged.
C4_ValidationFirst == []C4_Rejected /\ [][C4_CacheUntouched]_vars

\* An image of 10MB + 1 byte has been rejected while the cache holds an entry.
C4_Witness ==
    /\ cache # <<>>
    /\ \E p \in Calls :
          pc[p] = "thrown" /\ file[p].size = MaxFileSize + 1 /\ IsImageType(file[p])

\* C9: every entry of the cache holds a result with at least one product, and
\* a call that got an empty result from callRealVisionAPI (and so went to the
\* demo) has made no cache call but the has of its lookup.
C9_NoEmptyResultCached ==
    /\ \A i \in DOMAIN cache : cache[i].result.n > 0
    /\ \A p \in Calls :
          (pc[p] = "demo" \/ (pc[p] = "done" /\ result[p].tier = "demo"))
          => (cacheOps[p] = 1 /\ hashes[p] = 1)

\* Hugging Face has answered with no product and the call, holding that empty
\* result, is on its way to the demo.
C9_Witness ==
    \E p \in Calls : pc[p] = "demo" /\ result[p] = VisionResult("huggingface", 0, p)

\* Call q runs its cache lookup in this step.
Lookup(q) == pc[q] = "hash1" /\ pc'[q] # "hash1"

\* C10 as stated: a lookup for the bytes of a call that has already returned,
\* made within TTL of the start, returns that call's result object.
C10_RepeatReturnsSame ==
    \A p \in Calls, q \in Calls :
        (/\ p # q
         /\ pc[p] = "done"
         /\ file[p].bytes = file[q].bytes
         /\ Lookup(q)
         /\ now' < TTL)
        => (pc'[q] = "done" /\ result'[q] = result[p])

C10_Idempotence == [][C10_RepeatReturnsSame]_vars

\* C10, amended, as a step: a lookup that computes the SHA-256 while the cache
\* holds, under the SHA-256 of the same bytes, an entry younger than TTL
\* returns that entry's result object.
C10_HitReturnsEntry ==
    \A q \in Calls :
        \A i \in DOMAIN cache :
            (/\ Lookup(q)
             /\ hashKind'[q] = "sha256"
             /\ cache[i].key.kind = "sha256"
             /\ cache[i].key.bytes = file[q].bytes
             /\ now' - cache[i].timestamp < TTL)
            => (pc'[q] = "done" /\ result'[q] = cache[i].result)

\* Call q has returned from the cache-hit branch: one hash, has and get.
ReturnedFromCache(q) == pc[q] = "done" /\ hashes[q] = 1 /\ cacheOps[q] = 2

\* C10, amended, as a state: a call that returned from the cache-hit branch
\* has sent no provider request.
C10_HitAsksNoProvider ==
    \A q \in Calls : ReturnedFromCache(q) => reqs[q] = <<>>

\* C10, amended: when SHA-256 hashing works and the cache still holds an
\* unexpired entry for the same bytes, detectProducts returns that entry's
\* result object and invokes no provider.
C10_CachedIdempotence == []C10_HitAsksNoProvider /\ [][C10_HitReturnsEntry]_vars

\* A call has returned the result object another call built and stored.
C10_Witness ==
    \E q \in Calls :
        /\ ReturnedFromCache(q) /\ hashKind[q] = "sha256"
        /\ result[q] # Undefined /\ result[q].by # q

(***************************************************************************)
(* SpecAI: AIVisionService (aiVisionService.ts:80-421), one call.          *)
(***************************************************************************)
\* AI_CONFIG.FALLBACK_APIS.length
NumFallbackApis == 2

\* analyzeImageWithAI: the three fixed demo products.
AIDemoCount == 3

visionVars == <<now, cache, op, callVars>>

\* init(config): a token or key that is given replaces the configured one.
AIInit(huggingFaceToken, googleVisionKey) ==
    /\ aiToken' = (aiToken \/ huggingFaceToken)
    /\ aiKey' = (aiKey \/ googleVisionKey)
    /\ UNCHANGED <<visionVars, adapterVars, ocrVars, timerVars, analyzeVars, storageVars, aiPc, aiFile, aiIdx, aiTrace, aiResult, aiErr>>

\* The catch at lines 153-156: whatever was thrown inside the try is replaced
\* by one Error (its message, in Russian: "could not recognise the products in
\* the image") thrown to the caller.
aiCatch == [pc |-> "thrown", err |-> "Error"]

\* A return of the attempt's result as the response processing built it.
untagged(n, tier) == AIResult("", n)

\* Lines 114-118, 126-130, 138-142: the n products of the attempt are returned
\* as {...result, modelUsed: tier}; processAIResponse and
\* processGoogleVisionResponse had left modelUsed empty (lines 238, 307).
tagged(n, tier) == [AIResult("", n) EXCEPT !.modelUsed = tier]

\* A check that takes the keys for configured.
keysAssumed == TRUE

\* Line 97: hasApiKeys = AI_CONFIG.PRIMARY_TOKEN || AI_CONFIG.GOOGLE_API_KEY.
hasApiKeys == aiToken \/ aiKey

\* detectProducts is called with f, lines 93-110: without any key the demo
\* result is returned; otherwise the primary request is sent.
AIStart(f) ==
    /\ aiPc = "idle"
    /\ aiFile' = f
    /\ IF ~hasApiKeys
       THEN /\ aiPc' = "done"
            /\ aiResult' = AIResult("demo-analysis", AIDemoCount)
       ELSE /\ aiPc' = "primary"
            /\ aiResult' = aiResult
    /\ UNCHANGED <<visionVars, adapterVars, ocrVars, timerVars, analyzeVars, storageVars, aiToken, aiKey, aiIdx, aiTrace, aiErr>>

\* callPrimaryAI and lines 110-119.  "fail": axios.post rejects (timeout,
\* network error, non-2xx status) and callPrimaryAI throws it on.  "ok": the
\* response parses to n products; confident is result.confidence > 0.6.
AIPrimary(outcome, n, confident) ==
    /\ aiPc = "primary"
    /\ aiTrace' = Append(aiTrace, [tier |-> "primary-ai", outcome |-> outcome, n |-> n])
    /\ IF outcome = "fail"
       THEN /\ aiPc' = aiCatch.pc
            /\ aiErr' = aiCatch.err
            /\ aiResult' = aiResult
       ELSE /\ aiErr' = aiErr
            /\ IF n > 0 /\ confident
               THEN /\ aiPc' = "done"
                    /\ aiResult' = tagged(n, "primary-ai")
               ELSE /\ aiPc' = "google"
                    /\ aiResult' = aiResult
    /\ UNCHANGED <<visionVars, adapterVars, ocrVars, timerVars, analyzeVars, storageVars, aiToken, aiKey, aiFile, aiIdx>>

\* callGoogleVision and lines 123-130.  "fail": fileToBase64 or axios.post
\* rejects, or processGoogleVisionResponse throws on the response; the error
\* is thrown on.
AIGoogle(outcome, n) ==
    /\ aiPc = "google"
    /\ aiTrace' = Append(aiTrace, [tier |-> "google-vision", outcome |-> outcome, n |-> n])
    /\ IF outcome = "fail"
       THEN /\ aiPc' = aiCatch.pc
            /\ aiErr' = aiCatch.err
            /\ aiResult' = aiResult
            /\ aiIdx' = aiIdx
       ELSE /\ aiErr' = aiErr
            /\ IF n > 0
               THEN /\ aiPc' = "done"
                    /\ aiResult' = tagged(n, "google-vision")
                    /\ aiIdx' = aiIdx
               ELSE /\ aiPc' = "fallback"
                    /\ aiIdx' = 0
                    /\ aiResult' = aiResult
    /\ UNCHANGED <<visionVars, adapterVars, ocrVars, timerVars, analyzeVars, storageVars, aiToken, aiKey, aiFile>>

\* One turn of the loop at lines 134-147, and lines 150-151 after its last turn.
AIFallback(outcome, n) ==
    /\ aiPc = "fallback"
    /\ aiIdx < NumFallbackApis
    /\ aiTrace' = Append(aiTrace, [tier |-> <<"fallback", aiIdx>>, outcome |-> outcome, n |-> n])
    /\ IF outcome = "ok" /\ n > 0
       THEN /\ aiPc' = "done"
            /\ aiResult' = tagged(n, "fallback")
            /\ aiIdx' = aiIdx
       ELSE /\ aiIdx' = aiIdx + 1
            /\ IF aiIdx + 1 < NumFallbackApis
               THEN /\ aiPc' = "fallback"
                    /\ aiResult' = aiResult
               ELSE /\ aiPc' = "done"
                    /\ aiResult' = AIResult("demo-analysis", AIDemoCount)
    /\ UNCHANGED <<visionVars, adapterVars, ocrVars, timerVars, analyzeVars, storageVars, aiToken, aiKey, aiFile, aiErr>>

NextAI ==
    \/ \E t \in BOOLEAN, k \in BOOLEAN : AIInit(t, k)
    \/ \E f \in Uploads : AIStart(f)
    \/ AIPrimary("fail", 0, FALSE)
    \/ \E n \in 0..MaxProducts, confident \in BOOLEAN : AIPrimary("ok", n, confident)
    \/ AIGoogle("fail", 0)
    \/ \E n \in 0..MaxProducts : AIGoogle("ok", n)
    \/ AIFallback("fail", 0)
    \/ \E n \in 0..MaxProducts : AIFallback("ok", n)

SpecAI == Init /\ [][NextAI]_vars

(***************************************************************************)
(* Properties of AIVisionService.detectProducts, checked under SpecAI.     *)
(***************************************************************************)
LastAttempt == aiTrace[Len(aiTrace)]

\* C2: a failure of one provider (primary, Google Vision or a fallback API)
\* never makes the call throw: after a failed attempt the call is at the next
\* tier or has returned.
C2_ProviderFailureAdvances ==
    /\ aiPc # "thrown"
    /\ (aiTrace # <<>> /\ LastAttempt.outcome = "fail")
       => aiPc \in {"google", "fallback", "done"}

\* C3: the tiers are requested in the order primary, Google Vision, fallback
\* APIs; a tier is requested only after the one before it failed or yielded no
\* product; and when the first two attempts failed and the third yields
\* products, the call returns them under the third tier's tag.
C3_FallbackOrdering ==
    /\ \A i \in 2..Len(aiTrace) :
          aiTrace[i - 1].outcome = "fail" \/ aiTrace[i - 1].n = 0
    /\ (/\ Len(aiTrace) >= 2
        /\ aiTrace[1].outcome = "fail"
        /\ aiTrace[2].outcome = "fail")
       => aiPc # "thrown"
    /\ (/\ Len(aiTrace) = 3
        /\ aiTrace[3].outcome = "ok"
        /\ aiTrace[3].n > 0)
       => (aiPc = "done" /\ aiResult = AIResult("fallback", aiTrace[3].n))

\* C5: a call with a file that is not an image, or is larger than 10MB, has
\* thrown without any provider attempt.
C5_AIValidation ==
    (aiPc # "idle" /\ ~ValidFile(aiFile)) => (aiPc = "thrown" /\ aiTrace = <<>>)

\* C21: a call made while neither the primary token nor the Google key is
\* configured has returned the demo result, has sent no request to any
\* provider (the keyless fallback APIs included) and has not thrown.
C21_NoCredentialsDemo ==
    (aiPc # "idle" /\ ~aiToken /\ ~aiKey)
    => /\ aiPc = "done"
       /\ aiResult = AIResult("demo-analysis", AIDemoCount)
       /\ aiTrace = <<>>
       /\ aiErr = "none"

C21_Witness ==
    /\ ~aiToken /\ ~aiKey
    /\ aiPc = "done"
    /\ aiResult.modelUsed = "demo-analysis"
    /\ aiTrace = <<>>

\* The tier of the i-th attempt of a call: the primary network, Google
\* Vision, then the fallback APIs.
AttemptTier(i) ==
    CASE i = 1 -> "primary-ai"
      [] i = 2 -> "google-vision"
      [] OTHER -> "fallback"

\* The call returned the products of its last attempt.
ReturnedAttempt ==
    /\ aiTrace # <<>>
    /\ LastAttempt.outcome = "ok"
    /\ LastAttempt.n > 0

\* C22: every result the call returns carries the tag of the tier that
\* produced its products: the tier of the attempt whose products it returns,
\* or 'demo-analysis' for the fixed demo products; the tag is never empty.
C22_TierTag ==
    aiPc = "done" =>
        /\ aiResult.modelUsed \in {"primary-ai", "google-vision", "fallback", "demo-analysis"}
        /\ IF ReturnedAttempt
           THEN /\ aiResult.modelUsed = AttemptTier(Len(aiTrace))
                /\ aiResult.n = LastAttempt.n
                /\ Len(aiTrace) >= 3 => LastAttempt.tier = <<"fallback", Len(aiTrace) - 3>>
           ELSE /\ aiResult.modelUsed = "demo-analysis"
                /\ aiResult.n = AIDemoCount

C22_Witness ==
    /\ aiPc = "done"
    /\ Len(aiTrace) = 3
    /\ ReturnedAttempt
    /\ aiResult.modelUsed = "fallback"

\* C11: an attempt that yields products is the call's last attempt: the call
\* returns that many products and requests no later tier.
C11_NonEmptyAttemptWins ==
    \A i \in DOMAIN aiTrace :
        (aiTrace[i].outcome = "ok" /\ aiTrace[i].n > 0)
        => /\ i = Len(aiTrace)
           /\ aiPc = "done"
           /\ aiResult.n = aiTrace[i].n

(***************************************************************************)
(* Further properties of VisionService.detectProducts, checked under Spec. *)
(***************************************************************************)
\* Call p leaves the await it was suspended at in this step.
Leaves(p, at) == pc[p] = at /\ pc'[p] # at

\* A call that leaves the Hugging Face attempt without products goes on to
\* the heuristic analysis.
C12_EmptyIsFailure ==
    \A p \in Calls :
        (Leaves(p, "huggingface") /\ pc'[p] # "hash2") => pc'[p] = "analyze"

\* C12: a Hugging Face attempt that yields no product (no response, or a
\* response with no usable label) is followed by the heuristic analysis.
C12_HeuristicBeforeDemo == [][C12_EmptyIsFailure]_vars

\* A call whose image did not decode leaves the analysis with the result of
\* createBasicSimulation.
C13_UndecodableGivesBasic ==
    \A p \in Calls :
        (Leaves(p, "analyze") /\ result'[p].tier # HeuristicTier("onload"))
        => (result'[p] = VisionResult("basic", BasicCount, p) /\ pc'[p] = "hash2")

\* C13: an analysis whose image did not decode (img.onload did not run) ends
\* with the two fixed items of createBasicSimulation in hand, which the call
\* stores and returns.
C13_DemoFallback == [][C13_UndecodableGivesBasic]_vars

\* C14: every call that has returned has returned at least one product.
C14_NeverEmpty ==
    \A p \in Calls : pc[p] = "done" => result[p].n > 0

\* A call that returns from the cache-hit branch returns the result of an
\* entry the cache held for the content of its file.
C33_Hit ==
    \A p \in Calls :
        (Leaves(p, "hash1") /\ pc'[p] = "done")
        => /\ result'[p] # Undefined
           /\ \E i \in DOMAIN cache :
                  cache[i].key.bytes = file[p].bytes /\ cache[i].result = result'[p]

\* C33: whenever detectProducts takes the cache-hit branch (has(fileHash) is
\* true), the value it returns is the result object stored for that hash,
\* never undefined, even when the clock advances between has and get.
C33_HitReturnsEntry == [][C33_Hit]_vars

\* The result was parsed from the response of a remote provider: Google
\* Vision, a proxy or Hugging Face.
FromProvider(r) ==
    r.tier \in {"google", "huggingface"} \cup {ProxyTier(i) : i \in 0..(NumFallbackUrls - 1)}

\* C34: every entry of the vision cache holds a result parsed from a remote
\* provider's response; the results of createRealisticSimulation,
\* createBasicSimulation and demoVisionProcessing are never stored.
C34_OnlyProviderResultsCached ==
    \A i \in DOMAIN cache : FromProvider(cache[i].result)

\* C32: if every network request eventually resolves, rejects or is aborted,
\* every detectProducts call that has started eventually completes: it
\* returns a result or throws a validation error, and no path leaves it
\* pending forever.
C32_Termination ==
    \A p \in Calls : (pc[p] # "idle") ~> (pc[p] \in {"done", "thrown"})

(***************************************************************************)
(* The response-processing functions of VisionService and AIVisionService  *)
(* and the result builders demoVisionProcessing and                        *)
(* detectProductsFromAnalysis.  Confidences and scores are in hundredths   *)
(* (0.6 is 60).  Strings are those of the source; a Russian string is      *)
(* written in Latin letters after "ru:" ("ru:yabloko" is 'яблоко').  The   *)
(* string functions are tabulated on the labels the model's responses use  *)
(* and on the names they are translated to.                                *)
(***************************************************************************)
MaxDets == 2
MaxCandidates == 14

Detection(label, score) == [label |-> label, score |-> score]

ProductDetection(name, confidence) == [name |-> name, confidence |-> confidence]

\* The labels of the short responses, and the labels of the long ones (the
\* first twenty keys of translateLabel's table).
SmallLabels ==
    {"tomato", "Tomato", "apple", "Green apple", "table", "tea", "ru:yabloko"}

LongLabels ==
    <<"apple", "banana", "orange", "tomato", "cucumber", "garlic", "milk", "yogurt",
     "butter", "cream", "chicken", "beef", "pork", "fish", "salmon", "tuna">>

\* String.prototype.toLowerCase
toLowerCase(s) ==
    CASE s = "Tomato" -> "tomato"
      [] s = "Green apple" -> "green apple"
      [] s = "ru:Yabloko" -> "ru:yabloko"
      [] OTHER -> s

\* translateLabel, lines 862-924: the entries of its table for these labels.
translations ==
    [lowerLabel \in
        {"tomato", "apple", "tea", "banana", "orange", "cucumber", "garlic", "milk",
         "yogurt", "butter", "cream", "chicken", "beef", "pork", "fish", "salmon",
         "tuna"} |->
        CASE lowerLabel = "tomato" -> "ru:pomidor"
          [] lowerLabel = "apple" -> "ru:yabloko"
          [] lowerLabel = "tea" -> "ru:chaj"
          [] lowerLabel = "banana" -> "ru:banan"
          [] lowerLabel = "orange" -> "ru:apelsin"
          [] lowerLabel = "cucumber" -> "ru:ogurec"
          [] lowerLabel = "garlic" -> "ru:chesnok"
          [] lowerLabel = "milk" -> "ru:moloko"
          [] lowerLabel = "yogurt" -> "ru:jogurt"
          [] lowerLabel = "butter" -> "ru:maslo slivochnoe"
          [] lowerLabel = "cream" -> "ru:slivki"
          [] lowerLabel = "chicken" -> "ru:kurica"
          [] lowerLabel = "beef" -> "ru:govyadina"
          [] lowerLabel = "pork" -> "ru:svinina"
          [] lowerLabel = "fish" -> "ru:ryba"
          [] lowerLabel = "salmon" -> "ru:losos"
          [] lowerLabel = "tuna" -> "ru:tunec"]

capitalizeRussian(text) ==
    CASE text = "ru:yabloko" -> "ru:Yabloko"
      [] OTHER -> text

translateLabel(label) ==
    LET lowerLabel == toLowerCase(label)
    IN IF lowerLabel \in DOMAIN translations
       THEN translations[lowerLabel]
       ELSE capitalizeRussian(label)

\* AIVisionService.translateAndCategorize, lines 352-363.
aiTranslations ==
    [lowerLabel \in
        {"tomato", "apple", "banana", "orange", "cucumber", "milk", "yogurt"} |->
        CASE lowerLabel = "tomato" -> "ru:pomidor"
          [] lowerLabel = "apple" -> "ru:yabloko"
          [] lowerLabel = "banana" -> "ru:banan"
          [] lowerLabel = "orange" -> "ru:apelsin"
          [] lowerLabel = "cucumber" -> "ru:ogurec"
          [] lowerLabel = "milk" -> "ru:moloko"
          [] lowerLabel = "yogurt" -> "ru:jogurt"]

translateAndCategorize(label) ==
    LET lowerLabel == toLowerCase(label)
    IN IF lowerLabel \in DOMAIN aiTranslations THEN aiTranslations[lowerLabel] ELSE label

\* isFoodRelated, lines 935-989: the names that contain a food keyword and no
\* non-food keyword.
FoodRelatedNames ==
    {"tomato", "ru:pomidor", "Tomato", "apple", "ru:yabloko", "Green apple", "tea",
     "ru:chaj", "ru:Yabloko", "banana", "ru:banan", "orange", "ru:apelsin", "cucumber",
     "ru:ogurec", "garlic", "ru:chesnok", "milk", "ru:moloko", "yogurt", "ru:jogurt",
     "butter", "ru:maslo slivochnoe", "cream", "ru:slivki", "chicken", "ru:kurica",
     "beef", "ru:govyadina", "pork", "ru:svinina", "fish", "ru:ryba", "salmon",
     "ru:losos", "tuna", "ru:tunec", "ru:vinograd", "ru:shokolad", "ru:pechene",
     "ru:tort", "ru:yajco", "ru:syr", "ru:kofe", "ru:frukty", "ru:ovoschi"}

isFoodRelated(label) == label \in FoodRelatedNames

\* isGenericCategory, lines 992-1036: the names shorter than 4 characters,
\* made of digits only, or containing a generic term.
GenericNames ==
    {"tea", "ru:chaj", "ru:syr"}

isGenericCategory(name) == name \in GenericNames

\* isSpecificFood, lines 1050-1117: the names that contain a specific food.
SpecificFoodNames ==
    {"tomato", "ru:pomidor", "Tomato", "apple", "ru:yabloko", "Green apple", "tea",
     "ru:chaj", "ru:Yabloko", "banana", "ru:banan", "orange", "ru:apelsin", "cucumber",
     "ru:ogurec", "garlic", "ru:chesnok", "milk", "ru:moloko", "yogurt", "ru:jogurt",
     "butter", "ru:maslo slivochnoe", "cream", "ru:slivki", "chicken", "ru:kurica",
     "beef", "ru:govyadina", "pork", "ru:svinina", "fish", "ru:ryba", "salmon",
     "ru:losos", "tuna", "ru:tunec", "ru:limon", "ru:grusha", "ru:vinograd",
     "ru:persik", "ru:abrikos", "ru:sliva", "ru:kivi", "ru:mango", "ru:ananas",
     "ru:klubnika", "ru:malina", "ru:chernika", "ru:ezhevika", "ru:arbuz", "ru:dynya",
     "ru:granat", "ru:inzhir", "ru:shokolad", "ru:pechene", "ru:tort", "ru:pirozhnoe",
     "ru:konfety", "ru:vafli", "ru:pryaniki", "ru:zefir", "ru:marmelad", "ru:halva",
     "ru:pastila", "ru:keks", "ru:bulochka", "ru:kruassan", "ru:ponchik", "ru:pirog",
     "ru:pirozhok", "ru:syr", "ru:kofe"}

isSpecificFood(name) == name \in SpecificFoodNames

\* isPotentialFood, lines 1120-1145: the names that are not generic and
\* contain a food indicator ('green', 'raw', 'orange', 'blue', ...).
PotentialFoodNames ==
    {"Green apple", "orange"}

isPotentialFood(name) == name \in PotentialFoodNames

\* isSimilarProduct, lines 1148-1176: the pairs of names with different lower
\* case of which one contains the other or which contain the two sides of a
\* synonym pair.
SimilarPairs ==
    {{"tomato", "ru:pomidor"},
     {"ru:pomidor", "Tomato"},
     {"apple", "ru:yabloko"},
     {"apple", "Green apple"},
     {"apple", "ru:Yabloko"},
     {"ru:yabloko", "Green apple"},
     {"Green apple", "ru:Yabloko"},
     {"banana", "ru:banan"},
     {"orange", "ru:apelsin"},
     {"cucumber", "ru:ogurec"},
     {"milk", "ru:moloko"},
     {"yogurt", "ru:jogurt"},
     {"chicken", "ru:kurica"},
     {"beef", "ru:govyadina"},
     {"pork", "ru:svinina"},
     {"fish", "ru:ryba"}}

isSimilarProduct(name1, name2) ==
    \/ toLowerCase(name1) = toLowerCase(name2)
    \/ {name1, name2} \in SimilarPairs

\* removeDuplicates, lines 1039-1047: the first entry of each lower-cased name.
RECURSIVE removeDuplicates(_)
removeDuplicates(ps) ==
    IF ps = <<>> THEN <<>>
    ELSE LET front == SubSeq(ps, 1, Len(ps) - 1)
             last == ps[Len(ps)]
         IN IF \E j \in DOMAIN front : toLowerCase(front[j].name) = toLowerCase(last.name)
            THEN removeDuplicates(front)
            ELSE Append(removeDuplicates(front), last)

\* Array.prototype.sort((a, b) => b.confidence - a.confidence): stable,
\* descending.
RECURSIVE sortByConfidence(_)
sortByConfidence(ps) ==
    IF ps = <<>> THEN <<>>
    ELSE LET front == sortByConfidence(SubSeq(ps, 1, Len(ps) - 1))
             last == ps[Len(ps)]
             k == Cardinality({i \in DOMAIN front : front[i].confidence >= last.confidence})
         IN SubSeq(front, 1, k) \o <<last>> \o SubSeq(front, k + 1, Len(front))

\* Array.prototype.slice(0, n)
slice(ps, n) == SubSeq(ps, 1, IF Len(ps) < n THEN Len(ps) ELSE n)

\* processProxyResponse, lines 578-597.
processProxyResponse(data) ==
    LET kept == SelectSeq(data.detections, LAMBDA det : det.score > 50)
    IN removeDuplicates(
         [i \in DOMAIN kept |->
            ProductDetection(translateLabel(kept[i].label), kept[i].score)])

\* processHuggingFaceResponse, lines 648-670.
processHuggingFaceResponse(data) ==
    LET kept == SelectSeq(data, LAMBDA item :
                    /\ item.score > 60
                    /\ isFoodRelated(translateLabel(item.label))
                    /\ ~isGenericCategory(translateLabel(item.label)))
    IN removeDuplicates(
         [i \in DOMAIN kept |->
            ProductDetection(translateLabel(kept[i].label), kept[i].score)])

\* AIVisionService.filterAndSortProducts, lines 377-385: the first entry of
\* each lower-cased name, sorted, at most 10.
filterAndSortProducts(ps) == slice(sortByConfidence(removeDuplicates(ps)), 10)

\* AIVisionService.processAIResponse, lines 213-242: the products.
processAIResponse(data) ==
    LET kept == SelectSeq(data.predictions, LAMBDA prediction : prediction.score > 40)
    IN filterAndSortProducts(
         [i \in DOMAIN kept |->
            ProductDetection(translateAndCategorize(kept[i].label), kept[i].score)])

\* The smallest index of a set of indices, 0 if it is empty: the entry
\* Array.prototype.find returns, or undefined.
first(indices) ==
    IF indices = {} THEN 0 ELSE CHOOSE i \in indices : \A j \in indices : i <= j

\* products.find(p => p.name.toLowerCase() === translatedName.toLowerCase())
findByName(ps, translatedName) ==
    first({i \in DOMAIN ps : toLowerCase(ps[i].name) = toLowerCase(translatedName)})

\* products.find(p => p.name.toLowerCase() === translatedName.toLowerCase() ||
\*                    this.isSimilarProduct(p.name, translatedName))
findSimilar(ps, translatedName) ==
    first({i \in DOMAIN ps :
             \/ toLowerCase(ps[i].name) = toLowerCase(translatedName)
             \/ isSimilarProduct(ps[i].name, translatedName)})

\* processVisionResponse, lines 467-487: localizedObjectAnnotations.
RECURSIVE objectsFacet(_)
objectsFacet(objs) ==
    IF objs = <<>> THEN <<>>
    ELSE LET list == objectsFacet(SubSeq(objs, 1, Len(objs) - 1))
             obj == objs[Len(objs)]
             translatedName == translateLabel(obj.label)
         IN IF obj.score > 50 /\ isFoodRelated(obj.label) /\ ~isGenericCategory(translatedName)
            THEN Append(list, ProductDetection(translatedName, obj.score))
            ELSE list

\* processVisionResponse, lines 490-515: labelAnnotations.
RECURSIVE labelsFacet(_, _)
labelsFacet(before, labels) ==
    IF labels = <<>> THEN before
    ELSE LET list == labelsFacet(before, SubSeq(labels, 1, Len(labels) - 1))
             label == labels[Len(labels)]
             translatedName == translateLabel(label.label)
             existingProduct == findSimilar(list, translatedName)
         IN IF /\ label.score > 65
               /\ isFoodRelated(label.label)
               /\ ~isGenericCategory(translatedName)
               /\ isSpecificFood(translatedName)
            THEN IF existingProduct = 0
                 THEN Append(list, ProductDetection(translatedName, label.score))
                 ELSE IF label.score > list[existingProduct].confidence
                      THEN [list EXCEPT ![existingProduct].confidence = label.score]
                      ELSE list
            ELSE list

\* processVisionResponse, lines 518-537: webDetection.webEntities.  The
\* confidence is entity.score * 0.9; the scores of the model's web entities
\* are multiples of ten, so the product is exact in hundredths.
RECURSIVE webFacet(_, _)
webFacet(before, webEntities) ==
    IF webEntities = <<>> THEN before
    ELSE LET list == webFacet(before, SubSeq(webEntities, 1, Len(webEntities) - 1))
             entity == webEntities[Len(webEntities)]
             translatedName == translateLabel(entity.label)
             existingProduct == findByName(list, translatedName)
         IN IF /\ entity.score > 70
               /\ isFoodRelated(entity.label)
               /\ ~isGenericCategory(translatedName)
               /\ isSpecificFood(translatedName)
               /\ existingProduct = 0
               /\ Len(list) < 10
            THEN Append(list, ProductDetection(translatedName, (entity.score * 9) \div 10))
            ELSE list

\* processVisionResponse, lines 540-560: textAnnotations, a list of strings,
\* already cut to its first ten.
RECURSIVE textFacet(_, _)
textFacet(before, texts) ==
    IF texts = <<>> THEN before
    ELSE LET list == textFacet(before, SubSeq(texts, 1, Len(texts) - 1))
             text == texts[Len(texts)]
             translatedName == translateLabel(text)
             existingProduct == findByName(list, translatedName)
         IN IF /\ isPotentialFood(text)
               /\ isSpecificFood(translatedName)
               /\ ~isGenericCategory(translatedName)
               /\ existingProduct = 0
               /\ Len(list) < 12
            THEN Append(list, ProductDetection(translatedName, 60))
            ELSE list

\* processVisionResponse, lines 458-575, of a response that has responses[0].
processVisionResponse(data) ==
    LET list ==
            textFacet(
                webFacet(
                    labelsFacet(objectsFacet(data.localizedObjectAnnotations),
                                data.labelAnnotations),
                    data.webEntities),
                SubSeq(data.textAnnotations, 1,
                       IF Len(data.textAnnotations) < 10 THEN Len(data.textAnnotations) ELSE 10))
        uniqueProducts == removeDuplicates(list)
    IN slice(sortByConfidence(uniqueProducts), 12)

\* demoVisionProcessing, lines 218-239: the first and the eighth category of
\* the ten (fruit; sweets and pastry).
demoProducts ==
    <<<<"ru:yabloko", "ru:banan", "ru:apelsin", "ru:limon", "ru:grusha", "ru:vinograd",
       "ru:persik", "ru:abrikos", "ru:sliva", "ru:kivi", "ru:mango", "ru:ananas",
       "ru:klubnika", "ru:malina", "ru:chernika", "ru:ezhevika", "ru:arbuz",
       "ru:dynya", "ru:granat", "ru:inzhir">>,
      <<"ru:shokolad", "ru:pechene", "ru:tort", "ru:pirozhnoe", "ru:konfety",
       "ru:vafli", "ru:pryaniki", "ru:zefir", "ru:marmelad", "ru:halva", "ru:pastila",
       "ru:keks", "ru:bulochka", "ru:kruassan", "ru:ponchik", "ru:pirog",
       "ru:pirozhok", "ru:bliny", "ru:oladi", "ru:vafli">>>>

\* demoVisionProcessing, lines 242-275: the category, the distinct indices
\* and the confidences are the random draws.
demoVisionProcessing(draws) ==
    [i \in DOMAIN draws.indices |->
        ProductDetection(demoProducts[draws.category][draws.indices[i]],
                         draws.confidences[i])]

\* detectProductsFromAnalysis, lines 791-846.  Each flag of the analysis says
\* that a dominant colour of that kind exists or the file's name contains the
\* product's name; draws are the random additions to the confidences.
detectProductsFromAnalysis(analysis) ==
    LET colored ==
            (IF analysis.orange
             THEN <<ProductDetection("ru:apelsin", 85 + analysis.draws[1])>> ELSE <<>>)
            \o (IF analysis.red
                THEN <<ProductDetection("ru:yabloko", 80 + analysis.draws[2])>> ELSE <<>>)
            \o (IF analysis.green
                THEN <<ProductDetection("ru:ogurec", 75 + analysis.draws[3])>> ELSE <<>>)
            \o (IF analysis.yellow
                THEN <<ProductDetection("ru:banan", 80 + analysis.draws[4])>> ELSE <<>>)
        list ==
            IF colored # <<>> THEN colored
            ELSE IF analysis.averageBrightness > 160
                 THEN <<ProductDetection("ru:yajco", 60), ProductDetection("ru:syr", 55)>>
                 ELSE IF analysis.averageBrightness < 100
                      THEN <<ProductDetection("ru:shokolad", 65), ProductDetection("ru:kofe", 60)>>
                      ELSE <<>>
    IN slice(sortByConfidence(list), 4)

(***************************************************************************)
(* The responses and random draws the functions are applied to.            *)
(***************************************************************************)
Scores == {50, 60, 90}

\* The sequences over S of length at most n.
SeqsUpTo(S, n) == UNION {[1..k -> S] : k \in 0..n}

\* A facet of a Google Vision response with no entry or one.
Facet(S) == {<<>>} \cup {<<x>> : x \in S}

\* Up to MaxDets detections with any of the short labels.
ShortResponses == SeqsUpTo({Detection(l, sc) : l \in SmallLabels, sc \in Scores}, MaxDets)

\* k distinct valid candidates with distinct scores, ascending or descending.
LongResponse(k, ascending) ==
    [i \in 1..k |-> Detection(LongLabels[i], IF ascending THEN 70 + i ELSE 95 - i)]

LongResponses == {LongResponse(k, a) : k \in 1..MaxCandidates, a \in BOOLEAN}

ProviderResponses == ShortResponses \cup LongResponses

GoogleResponses ==
    [localizedObjectAnnotations :
        SeqsUpTo({Detection(l, sc) : l \in SmallLabels, sc \in {60, 90}}, MaxDets)
        \cup LongResponses,
     labelAnnotations : Facet({Detection(l, sc) : l \in {"apple", "Tomato"}, sc \in {60, 90}}),
     webEntities : Facet({Detection(l, sc) : l \in {"apple", "Tomato"}, sc \in {60, 90}}),
     textAnnotations : Facet({"Green apple", "orange"})]

\* The draws of demoVisionProcessing: a category, 3 to 5 distinct indices into
\* it (1-based here) and a confidence between 0.7 and 1.0 for each.
DemoIndices == {1, 2, 3, 6, 20}

DemoConfidences == {70, 99}

DemoDraws ==
    {d \in UNION {[category : DOMAIN demoProducts,
                   indices : [1..n -> DemoIndices],
                   confidences : [1..n -> DemoConfidences]] : n \in 3..5} :
        \A i, j \in DOMAIN d.indices : i # j => d.indices[i] # d.indices[j]}

\* The analyses of analyzeImage, lines 695-754, as far as
\* detectProductsFromAnalysis reads them, with the four random additions
\* (below 0.1, 0.15, 0.15 and 0.1).
Analyses ==
    [orange : BOOLEAN, red : BOOLEAN, green : BOOLEAN, yellow : BOOLEAN,
     averageBrightness : {90, 128, 170},
     draws : {d \in [1..4 -> {0, 9, 14}] : d[1] # 14 /\ d[4] # 14}]

(***************************************************************************)
(* One step applies one of the functions to one response.  The functions   *)
(* are static and keep no state between applications, so each behaviour    *)
(* applies one function once.                                              *)
(***************************************************************************)
Idle == adapter = "none"

Apply(name, given, returned) ==
    /\ adapter' = name
    /\ response' = given
    /\ products' = returned
    /\ UNCHANGED <<visionVars, aiVars, ocrVars, timerVars, analyzeVars, storageVars>>

ProcessVisionResponse ==
    /\ Idle
    /\ \E data \in GoogleResponses :
        Apply("google", data, processVisionResponse(data))

ProcessProxyResponse ==
    /\ Idle
    /\ \E data \in [detections : ProviderResponses] :
        Apply("proxy", data, processProxyResponse(data))

ProcessHuggingFaceResponse ==
    /\ Idle
    /\ \E data \in ProviderResponses :
        Apply("huggingface", [data |-> data], processHuggingFaceResponse(data))

ProcessAIResponse ==
    /\ Idle
    /\ \E data \in [predictions : ProviderResponses] :
        Apply("ai", data, processAIResponse(data))

DemoVisionProcessing ==
    /\ Idle
    /\ \E draws \in DemoDraws :
        Apply("demo", draws, demoVisionProcessing(draws))

DetectProductsFromAnalysis ==
    /\ Idle
    /\ \E analysis \in Analyses :
        Apply("heuristic", analysis, detectProductsFromAnalysis(analysis))

NextAdapters ==
    \/ ProcessVisionResponse
    \/ ProcessProxyResponse
    \/ ProcessHuggingFaceResponse
    \/ ProcessAIResponse
    \/ DemoVisionProcessing
    \/ DetectProductsFromAnalysis

SpecAdapters == Init /\ [][NextAdapters]_vars

(***************************************************************************)
(* Claims about the products lists.                                        *)
(***************************************************************************)
ProviderAdapters == {"google", "proxy", "huggingface", "ai"}

\* C15: no products list that a tier returns (provider, heuristic or demo)
\* holds two entries whose lower-cased names are equal.
C15_NoDuplicates ==
    \A i, j \in DOMAIN products :
        i # j => toLowerCase(products[i].name) # toLowerCase(products[j].name)

\* C16: every products list that a tier returns is sorted by descending
\* confidence.
C16_SortedDescending ==
    \A i \in DOMAIN products :
        i < Len(products) => products[i].confidence >= products[i + 1].confidence

\* C17: whatever the number of distinct valid candidates in a provider's
\* response, the adapter that parsed it returns at most 12 products.
C17_ResultCap == adapter \in ProviderAdapters => Len(products) <= 12

\* The score a detection must exceed to become a candidate, and the name
\* the adapter gives it.
Threshold(a) == CASE a = "proxy" -> 50 [] a = "huggingface" -> 60 [] a = "ai" -> 40

Detections ==
    CASE adapter = "proxy" -> response.detections
      [] adapter = "huggingface" -> response.data
      [] adapter = "ai" -> response.predictions

CanonicalName(a, label) ==
    IF a = "ai" THEN translateAndCategorize(label) ELSE translateLabel(label)

\* C18: when candidates of one response have the same lower-cased name, the
\* one entry of that name in the result carries the highest of their
\* confidences.
C18_DedupKeepsHigher ==
    adapter \in {"proxy", "huggingface", "ai"} =>
        \A i \in DOMAIN products, k \in DOMAIN Detections :
            (/\ Detections[k].score > Threshold(adapter)
             /\ toLowerCase(CanonicalName(adapter, Detections[k].label))
                    = toLowerCase(products[i].name))
            => products[i].confidence >= Detections[k].score

\* C19: the list processVisionResponse returns holds no two entries that
\* isSimilarProduct treats as one product, whichever facets they came from.
C19_SynonymsMerged ==
    adapter = "google" =>
        \A i, j \in DOMAIN products :
            i # j => ~isSimilarProduct(products[i].name, products[j].name)

\* The raw labels of the response a provider adapter was given.
RawLabels ==
    IF adapter = "google"
    THEN {d.label : d \in {response.localizedObjectAnnotations[k] :
                              k \in DOMAIN response.localizedObjectAnnotations}
                          \cup {response.labelAnnotations[k] :
                                  k \in DOMAIN response.labelAnnotations}
                          \cup {response.webEntities[k] : k \in DOMAIN response.webEntities}}
         \cup {response.textAnnotations[k] : k \in DOMAIN response.textAnnotations}
    ELSE {Detections[k].label : k \in DOMAIN Detections}

\* C20: every product an adapter builds from a provider's response comes
\* from a raw label that is food related and is no generic category.
C20_OnlyFilteredLabels ==
    adapter \in ProviderAdapters =>
        \A i \in DOMAIN products :
            \E label \in RawLabels :
                /\ CanonicalName(adapter, label) = products[i].name
                /\ isFoodRelated(label)
                /\ ~isGenericCategory(label)

(***************************************************************************)
(* OCRService.parseReceiptText (part_002:104-158).  A text is the sequence *)
(* of its lines; the regular expressions of the function are tabulated on  *)
(* the lines the model's texts are made of.  Totals are in hundredths.     *)
(***************************************************************************)
MaxLines == 3

ReceiptLines ==
    {"ru:PYaTEROChKA",
     "ru:MAGNIT",
     "2024-01-15",
     "2024-01-14 12:15:30",
     "ru:Moloko - 85.50",
     "ru:Hleb - 45.00",
     "ru:ITOG: 130.50",
     "ru:ITOG: 0.00",
     "ru:itog: 100 - 5.00",
     "ru:ITOG - 130.50",
     "ru:ChEK 12 - 3",
     ""}

\* Lines 111-117 and 123-128: the store of the first pattern that matches
\* the line (case-insensitively), "undefined" if none does.
storePatterns(line) ==
    CASE line = "ru:PYaTEROChKA" -> "ru:Pyaterochka"
      [] line = "ru:MAGNIT" -> "ru:Magnit"
      [] OTHER -> "undefined"

\* Line 133: line.match(/(\d{4}-\d{2}-\d{2})/), the matched date.
dateMatch(line) ==
    CASE line = "2024-01-15" -> "2024-01-15"
      [] line = "2024-01-14 12:15:30" -> "2024-01-14"
      [] OTHER -> "undefined"

\* Lines 141-143: line.match(/ИТОГ[\s:]*([\d.,]+)/i) and
\* parseFloat(totalMatch[1].replace(',', '.')).
totalMatch(line) ==
    CASE line = "ru:ITOG: 130.50" -> 13050
      [] line = "ru:ITOG: 0.00" -> 0
      [] line = "ru:itog: 100 - 5.00" -> 10000
      [] OTHER -> NoTotal

\* Lines 148, 150-152: line.match(/^(.+?)\s*-\s*([\d.,]+)$/), and the name
\* matched, trimmed and without leading digits; "null" if the line does not
\* match.
productMatch(line) ==
    CASE line = "2024-01-15" -> "-01"
      [] line = "ru:Moloko - 85.50" -> "ru:Moloko"
      [] line = "ru:Hleb - 45.00" -> "ru:Hleb"
      [] line = "ru:itog: 100 - 5.00" -> "ru:itog: 100"
      [] line = "ru:ITOG - 130.50" -> "ru:ITOG"
      [] line = "ru:ChEK 12 - 3" -> "ru:ChEK 12"
      [] OTHER -> "null"

\* line.includes('ИТОГ') and line.includes('ЧЕК'), line 149.
IncludesITOG == {"ru:ITOG: 130.50", "ru:ITOG: 0.00", "ru:ITOG - 130.50"}

IncludesCHEK == {"ru:ChEK 12 - 3"}

\* Line 105: text.split('\n').filter(line => line.trim()).
splitLines(t) == SelectSeq(t, LAMBDA line : line # "")

\* Line 153: products.push(cleanName).
push(ps, cleanName) == Append(ps, cleanName)

\* Line 149: the line is emitted as a product.
isProductLine(line) ==
    /\ productMatch(line) # "null"
    /\ line \notin IncludesITOG
    /\ line \notin IncludesCHEK

\* The loop at lines 120-155.  !store and !date hold while the field is
\* undefined; !total holds while it is undefined or 0.
RECURSIVE scanLines(_)
scanLines(lines) ==
    IF lines = <<>>
    THEN ReceiptParseResult(<<>>, "undefined", NoTotal, "undefined")
    ELSE LET r == scanLines(SubSeq(lines, 1, Len(lines) - 1))
             line == lines[Len(lines)]
         IN ReceiptParseResult(
                IF isProductLine(line) THEN push(r.products, productMatch(line))
                                       ELSE r.products,
                IF r.store = "undefined" THEN storePatterns(line) ELSE r.store,
                IF (r.total = NoTotal \/ r.total = 0) /\ totalMatch(line) # NoTotal
                THEN totalMatch(line) ELSE r.total,
                IF r.date = "undefined" THEN dateMatch(line) ELSE r.date)

parseReceiptText(t) == scanLines(splitLines(t))

\* The text 'ПЯТЕРОЧКА / 2024-01-15 / Молоко - 85.50 / Хлеб - 45.00 /
\* ИТОГ: 130.50'.
ExampleReceipt ==
    <<"ru:PYaTEROChKA", "2024-01-15", "ru:Moloko - 85.50", "ru:Hleb - 45.00",
      "ru:ITOG: 130.50">>

Receipts == SeqsUpTo(ReceiptLines, MaxLines) \cup {ExampleReceipt}

\* One behaviour parses one text.
ParseReceiptText ==
    /\ parsed = NotParsed
    /\ \E t \in Receipts :
        /\ receiptText' = t
        /\ parsed' = parseReceiptText(t)
    /\ UNCHANGED <<visionVars, aiVars, adapterVars, ocrCallVars, timerVars, analyzeVars, storageVars>>

NextReceipt == ParseReceiptText

SpecReceipt == Init /\ [][NextReceipt]_vars

(***************************************************************************)
(* Claims about parseReceiptText, checked under SpecReceipt.               *)
(***************************************************************************)
\* C23: the text of a store line, a line that is only a date, two product
\* lines and a total line parses to the store, the date, the total and
\* exactly the two products.
C23_ReceiptExample ==
    receiptText = ExampleReceipt =>
        parsed = ReceiptParseResult(<<"ru:Moloko", "ru:Hleb">>, "ru:Pyaterochka",
                                    13050, "2024-01-15")

\* The lines of the text that was parsed, once it was parsed.
ParsedLines == IF parsed = NotParsed THEN <<>> ELSE splitLines(receiptText)

\* A line that sets or could set the total, or is a header: it matches the
\* total pattern (case-insensitively) or holds one of the two marks.
TotalOrHeader(line) ==
    \/ totalMatch(line) # NoTotal
    \/ line \in IncludesITOG
    \/ line \in IncludesCHEK

\* A product line: of the form '<name> - <amount>', and neither a total nor
\* a header line.
ProductLine(line) == productMatch(line) # "null" /\ ~TotalOrHeader(line)

\* C24: every product emitted comes from a line of the form
\* '<name> - <amount>' that matches neither the total pattern nor a header
\* pattern; a line that could set the total is never emitted as a product.
C24_ProductLinesOnly ==
    \A i \in DOMAIN parsed.products :
        \E k \in DOMAIN ParsedLines :
            /\ ProductLine(ParsedLines[k])
            /\ productMatch(ParsedLines[k]) = parsed.products[i]

\* The first of the lines numbered in hits, "" if there is none.
FirstLine(hits) ==
    IF hits = {} THEN ""
    ELSE ParsedLines[CHOOSE k \in hits : \A j \in hits : k <= j]

\* The first line that matches a store pattern, the date pattern, the total
\* pattern.
FirstStoreLine ==
    FirstLine({k \in DOMAIN ParsedLines : storePatterns(ParsedLines[k]) # "undefined"})

FirstDateLine ==
    FirstLine({k \in DOMAIN ParsedLines : dateMatch(ParsedLines[k]) # "undefined"})

FirstTotalLine ==
    FirstLine({k \in DOMAIN ParsedLines : totalMatch(ParsedLines[k]) # NoTotal})

\* C25: each of store, date and total is taken from the first line that
\* matches its pattern; a later matching line never changes it.
C25_FirstMatchWins ==
    parsed # NotParsed =>
        /\ parsed.store = storePatterns(FirstStoreLine)
        /\ parsed.date = dateMatch(FirstDateLine)
        /\ parsed.total = totalMatch(FirstTotalLine)

\* C26: the products list has one entry per product line of the text, the
\* i-th entry coming from the i-th product line.
C26_OrderPreserved ==
    LET productLines == SelectSeq(ParsedLines, ProductLine)
    IN parsed.products = [i \in DOMAIN productLines |-> productMatch(productLines[i])]

(***************************************************************************)
(* SpecAttempts: the provider attempts of one callRealVisionAPI call in    *)
(* time.  Each attempt arms its own timer before its fetch and clears it   *)
(* when the fetch resolves; the body of the response is read after that.   *)
(***************************************************************************)
\* The tiers in the order callRealVisionAPI tries them: 1 is Google Vision,
\* 2 .. NumFallbackUrls + 1 are the proxies, the last is Hugging Face.
HuggingFaceTier == NumFallbackUrls + 2

\* The attempt has sent its request and has not settled yet: it waits for
\* fetch, or for response.json() or response.text().
InFlight(a) == a.phase \in {"fetch", "json", "text"}

\* Where control goes at time t when the attempt of a tier has failed: the
\* catch at line 394 and the proxy loop arm the next timer and fetch at once,
\* callHuggingFaceAPI first awaits fileToBase64 (line 604), and its own catch
\* (line 638) goes to createRealisticSimulation.
nextAttempt(tier, t) ==
    IF tier = HuggingFaceTier THEN Attempt(tier, "simulation", t)
    ELSE IF tier + 1 = HuggingFaceTier THEN Attempt(tier + 1, "base64", t)
    ELSE Attempt(tier + 1, "fetch", t)

\* The timer an attempt arms when it starts its fetch (lines 353, 407, 607).
armed(a) == IF a.phase = "fetch" THEN {Timer(a.tier, a.started)} ELSE {}

attemptRest == <<cache, op, callVars, aiVars, adapterVars, ocrVars, analyzeVars, storageVars>>

\* Lines 327-363: fileToBase64 has resolved; the Google Vision timer is armed
\* and the request is sent.
CallRealVisionAPI ==
    /\ attempt = NoAttempt
    /\ attempt' = Attempt(1, "fetch", now)
    /\ timers' = timers \cup armed(attempt')
    /\ UNCHANGED <<now, aborted, attemptRest>>

\* fetch resolves with the response's status and headers: clearTimeout runs
\* (lines 365, 415, 625), then the body is read, as JSON when response.ok and
\* as text otherwise.
FetchResolves(ok) ==
    /\ attempt.phase = "fetch"
    /\ timers' = {t \in timers : t.tier # attempt.tier}
    /\ attempt' = [attempt EXCEPT !.phase = IF ok THEN "json" ELSE "text"]
    /\ UNCHANGED <<now, aborted, attemptRest>>

\* fetch rejects with a network error: the catch runs and the timer of the
\* attempt stays armed.
FetchRejects ==
    /\ attempt.phase = "fetch"
    /\ attempt' = nextAttempt(attempt.tier, now)
    /\ timers' = timers \cup armed(attempt')
    /\ UNCHANGED <<now, aborted, attemptRest>>

\* A timer that is due runs controller.abort() of its own attempt: a fetch in
\* flight rejects with AbortError, a fetch that has settled is not affected.
TimerFires(t) ==
    /\ t \in timers
    /\ t.deadline <= now
    /\ IF attempt.tier = t.tier /\ attempt.phase = "fetch"
       THEN /\ aborted' = aborted \cup {t.tier}
            /\ attempt' = nextAttempt(attempt.tier, now)
            /\ timers' = (timers \ {t}) \cup armed(attempt')
       ELSE /\ timers' = timers \ {t}
            /\ UNCHANGED <<attempt, aborted>>
    /\ UNCHANGED <<now, attemptRest>>

\* The body read settles.  usable: the JSON parsed and the result is returned
\* (lines 381-383, 427-429, 634-637); otherwise the error text was read, the
\* read was rejected, the response reported an error or no product was left.
BodyRead(usable) ==
    /\ attempt.phase \in {"json", "text"}
    /\ attempt' = IF usable /\ attempt.phase = "json"
                  THEN [attempt EXCEPT !.phase = "returned"]
                  ELSE nextAttempt(attempt.tier, now)
    /\ timers' = timers \cup armed(attempt')
    /\ UNCHANGED <<now, aborted, attemptRest>>

\* callHuggingFaceAPI, line 604: fileToBase64 resolves and the request is
\* sent with its own timer, or rejects and the catch at line 638 runs.
HuggingFaceBase64(ok) ==
    /\ attempt.phase = "base64"
    /\ attempt' = IF ok THEN Attempt(attempt.tier, "fetch", now)
                  ELSE nextAttempt(attempt.tier, now)
    /\ timers' = timers \cup armed(attempt')
    /\ UNCHANGED <<now, aborted, attemptRest>>

\* Time passes; a timer that is due runs before it does.
TimePasses ==
    /\ now < MaxTime
    /\ \A t \in timers : t.deadline > now
    /\ now' = now + 1
    /\ UNCHANGED <<timerVars, attemptRest>>

NextAttempts ==
    \/ CallRealVisionAPI
    \/ \E ok \in BOOLEAN : FetchResolves(ok)
    \/ FetchRejects
    \/ \E t \in timers : TimerFires(t)
    \/ \E usable \in BOOLEAN : BodyRead(usable)
    \/ \E ok \in BOOLEAN : HuggingFaceBase64(ok)
    \/ TimePasses

SpecAttempts == Init /\ [][NextAttempts]_vars

\* An attempt in flight has been so for at most TIMEOUT, and what is returned
\* comes from an attempt that was not aborted.
C29_Bounded ==
    /\ InFlight(attempt) => now - attempt.started <= TIMEOUT
    /\ attempt.phase = "returned" => attempt.tier \notin aborted

\* An abort is the work of the timer of the attempt in flight, and control
\* then goes on to the next tier.
C29_OwnTimer ==
    aborted' # aborted
    => /\ aborted' = aborted \cup {attempt.tier}
       /\ InFlight(attempt)
       /\ \E t \in timers : t.tier = attempt.tier /\ t.deadline <= now /\ t \notin timers'
       /\ attempt'.tier = attempt.tier + 1 \/ attempt'.phase = "simulation"

\* C29: every provider attempt of VisionService has its own timer; an attempt
\* that has not delivered a usable response within TIMEOUT is aborted, the
\* next tier is tried and nothing of the cancelled attempt is used; the timer
\* of one attempt never aborts another attempt.
C29_PerAttemptTimeout == []C29_Bounded /\ [][C29_OwnTimer]_vars

(***************************************************************************)
(* SpecOCR: concurrent OCRService.extractTextFromImage calls               *)
(* (src/unnamed/part_002:29-59, 161-228).  OCR_CONFIG.API_KEY and ocrCache *)
(* are shared by the calls.                                                *)
(***************************************************************************)
\* The files handed to extractTextFromImage, which reads the type and the
\* content only.
OcrUploads == {f \in Files : f.size = MaxFileSize}

\* A restore that leaves OCR_CONFIG.API_KEY as it is.
keptKey(frames, key) == key

\* OCR_CONFIG.API_KEY once every suspended callRealOCRAPI frame of a call has
\* run its API_KEY = tempKey (lines 218, 221): the outermost frame is last.
restoredKey(frames, key) == IF frames = <<>> THEN key ELSE frames[1]

\* What extractTextFromImage returns once callRealOCRAPI has settled: the text
\* of the API (line 47), or a demo receipt, either because the text was short
\* (line 52) or because callRealOCRAPI threw (line 57).
demoOrText(outcome) ==
    CASE outcome = "text" -> "api"
      [] outcome = "short" -> "demo-short-text"
      [] OTHER -> "demo-api-failed"

\* extractTextFromImage is called with f: the type check (lines 30-32) runs
\* before the first await.  Calls start in the order of their numbers.
ExtractTextFromImage(p, f) ==
    /\ ocrPc[p] = "idle"
    /\ \A q \in 1..(p - 1) : ocrPc[q] # "idle"
    /\ ocrFile' = [ocrFile EXCEPT ![p] = f]
    /\ IF IsImageType(f)
       THEN /\ ocrPc' = [ocrPc EXCEPT ![p] = "hash"]
            /\ ocrOut' = ocrOut
       ELSE /\ ocrPc' = [ocrPc EXCEPT ![p] = "done"]
            /\ ocrOut' = [ocrOut EXCEPT ![p] = "error"]
    /\ UNCHANGED <<ocrKey, ocrReqs, ocrFrames, ocrCache>>
    /\ UNCHANGED <<visionVars, aiVars, adapterVars, receiptText, parsed, timerVars, analyzeVars, storageVars>>

\* Lines 35-42 and 170-187: generateFileHash settles.  It has no fallback:
\* when file.arrayBuffer() rejects or crypto.subtle is missing the call
\* rejects.  Otherwise a stored text is returned, or callRealOCRAPI builds its
\* form with the current OCR_CONFIG.API_KEY and sends the request.
OcrCacheCheck(p, readable) ==
    /\ ocrPc[p] = "hash"
    /\ IF ~(readable /\ subtle)
       THEN /\ ocrPc' = [ocrPc EXCEPT ![p] = "done"]
            /\ ocrOut' = [ocrOut EXCEPT ![p] = "error"]
            /\ ocrReqs' = ocrReqs
       ELSE IF ocrFile[p].bytes \in ocrCache
       THEN /\ ocrPc' = [ocrPc EXCEPT ![p] = "done"]
            /\ ocrOut' = [ocrOut EXCEPT ![p] = "cache"]
            /\ ocrReqs' = ocrReqs
       ELSE /\ ocrPc' = [ocrPc EXCEPT ![p] = "fetch"]
            /\ ocrOut' = ocrOut
            /\ ocrReqs' = [ocrReqs EXCEPT ![p] = Append(@, ocrKey)]
    /\ UNCHANGED <<ocrKey, ocrFile, ocrFrames, ocrCache>>
    /\ UNCHANGED <<visionVars, aiVars, adapterVars, receiptText, parsed, timerVars, analyzeVars, storageVars>>

\* Lines 181-227 and 42-58: the request of the innermost callRealOCRAPI frame
\* settles.  "fail" is a rejected fetch, a non-2xx status, IsErroredOnProcessing
\* or an empty text: with API_KEY other than FALLBACK_KEY the frame keeps
\* tempKey, sets API_KEY = FALLBACK_KEY and calls callRealOCRAPI again, which
\* sends its request at once; otherwise it throws, every suspended frame
\* restores its tempKey and extractTextFromImage returns a demo receipt.
\* "text" is a text of more than 10 characters, which is stored and returned;
\* "short" a shorter one, for which a demo receipt is returned.
OcrResponse(p, outcome) ==
    /\ ocrPc[p] = "fetch"
    /\ IF outcome = "fail" /\ ocrKey # FALLBACK_KEY
       THEN /\ ocrFrames' = [ocrFrames EXCEPT ![p] = Append(@, ocrKey)]
            /\ ocrKey' = FALLBACK_KEY
            /\ ocrReqs' = [ocrReqs EXCEPT ![p] = Append(@, FALLBACK_KEY)]
            /\ UNCHANGED <<ocrPc, ocrOut, ocrCache>>
       ELSE /\ ocrKey' = restoredKey(ocrFrames[p], ocrKey)
            /\ ocrFrames' = [ocrFrames EXCEPT ![p] = <<>>]
            /\ ocrPc' = [ocrPc EXCEPT ![p] = "done"]
            /\ ocrOut' = [ocrOut EXCEPT ![p] = demoOrText(outcome)]
            /\ ocrCache' = IF outcome = "text" THEN ocrCache \cup {ocrFile[p].bytes}
                           ELSE ocrCache
            /\ ocrReqs' = ocrReqs
    /\ ocrFile' = ocrFile
    /\ UNCHANGED <<visionVars, aiVars, adapterVars, receiptText, parsed, timerVars, analyzeVars, storageVars>>

NextOCR ==
    \/ \E p \in Calls, f \in OcrUploads : ExtractTextFromImage(p, f)
    \/ \E p \in Calls, readable \in BOOLEAN : OcrCacheCheck(p, readable)
    \/ \E p \in Calls, outcome \in {"text", "short", "fail"} : OcrResponse(p, outcome)

SpecOCR == Init /\ [][NextOCR]_vars

\* C30: no retry: within one call a provider endpoint that has failed is not
\* requested again; each endpoint receives at most one request per call
\* (here OCR_CONFIG.API_URL, the only endpoint of extractTextFromImage).
C30_NoRetry == \A p \in Calls : Len(ocrReqs[p]) <= 1

\* C36: in every interleaving of concurrent extractTextFromImage calls, a
\* call whose request with the primary key fails makes one further attempt
\* with the fallback key before it falls back to demo text, and no call sends
\* its first request with the fallback key.
C36_KeyFallback ==
    \A p \in Calls :
        /\ ocrReqs[p] # <<>> => ocrReqs[p][1] = API_KEY
        /\ ocrOut[p] = "demo-api-failed" => ocrReqs[p] = <<API_KEY, FALLBACK_KEY>>

\* No callRealOCRAPI call is in progress.
OcrQuiet == \A p \in Calls : ocrPc[p] # "fetch"

\* C37: whenever no callRealOCRAPI call is in progress OCR_CONFIG.API_KEY is
\* the primary key: the swap to the fallback key is undone on success and on
\* failure in every interleaving, and no call nests its retry deeper than one.
C37_KeyRestored ==
    /\ OcrQuiet => ocrKey = API_KEY
    /\ \A p \in Calls : Len(ocrFrames[p]) <= 1

\* Two calls have retried with the fallback key, one ending with the text of
\* the API and one with a demo receipt, and no call is in progress.
C37_Witness ==
    /\ OcrQuiet
    /\ \E p, q \in Calls :
           /\ ocrReqs[p] = <<API_KEY, FALLBACK_KEY>> /\ ocrOut[p] = "api"
           /\ ocrReqs[q] = <<API_KEY, FALLBACK_KEY>> /\ ocrOut[q] = "demo-api-failed"

(***************************************************************************)
(* SpecAnalyze: VisionService.analyzeImage (visionService.ts:695-754) on   *)
(* one file.  The promise is settled only by the load or the error handler *)
(* of the Image element.                                                   *)
(***************************************************************************)
MaxDim == 2
MaxCanvasArea == 3

\* The grey levels of the model's images, all of whose pixels are alike.
Greys == {0, 128, 255}

\* The Image elements of the model's files: the ones that decode, of every
\* size up to MaxDim (an SVG without intrinsic dimensions loads with width and
\* height 0), and the ones that do not.
Images ==
    {Image(TRUE, w, h, c, g, FALSE) : w \in 0..MaxDim, h \in 0..MaxDim, c \in BOOLEAN, g \in Greys}
    \cup {Image(FALSE, 0, 0, c, 0, FALSE) : c \in BOOLEAN}

\* ctx.getImageData(0, 0, canvas.width, canvas.height), line 711, throws an
\* IndexSizeError when the width or the height is 0 and a RangeError when the
\* pixels do not fit the canvas the browser can allocate.
getImageDataThrows(width, height) ==
    width = 0 \/ height = 0 \/ width * height > MaxCanvasArea

\* analyzeColors, lines 757-788, on pixelCount pixels of one grey level: the
\* rounded mean brightness and the number of dominant colours.
analyzeColors(grey, pixelCount) ==
    [averageBrightness |-> (grey * pixelCount) \div (IF pixelCount = 0 THEN 1 ELSE pixelCount),
     dominantColors |-> IF pixelCount = 0 THEN 0 ELSE 1]

\* Lines 695-698 and 751: analyzeImage makes the promise and the Image element
\* and sets img.src.
AnalyzeImageCall(im) ==
    /\ imageAnalysis.state = "none"
    /\ image' = im
    /\ imageAnalysis' = Promise("pending", NoAnalysis)
    /\ UNCHANGED <<visionVars, aiVars, adapterVars, ocrVars, timerVars, storageVars>>

\* img.onload, lines 700-737.  An exception thrown by getImageData leaves the
\* handler before resolve is called: nothing catches it and the promise stays
\* pending.
ImgOnload ==
    /\ imageAnalysis.state = "pending"
    /\ ~image.handled
    /\ image.decodes
    /\ image' = [image EXCEPT !.handled = TRUE]
    /\ imageAnalysis' =
         IF ~image.ctx
         THEN Promise("resolved", ImageAnalysis(image.width, image.height, 128, FALSE, 0))
         ELSE IF getImageDataThrows(image.width, image.height)
         THEN imageAnalysis
         ELSE LET colorAnalysis == analyzeColors(image.grey, image.width * image.height)
              IN Promise("resolved",
                         ImageAnalysis(image.width, image.height,
                                       colorAnalysis.averageBrightness,
                                       colorAnalysis.averageBrightness < 128,
                                       colorAnalysis.dominantColors))
    /\ UNCHANGED <<visionVars, aiVars, adapterVars, ocrVars, timerVars, storageVars>>

\* img.onerror, lines 739-750: the neutral analysis.
ImgOnerror ==
    /\ imageAnalysis.state = "pending"
    /\ ~image.handled
    /\ ~image.decodes
    /\ image' = [image EXCEPT !.handled = TRUE]
    /\ imageAnalysis' = Promise("resolved", ImageAnalysis(0, 0, 128, FALSE, 0))
    /\ UNCHANGED <<visionVars, aiVars, adapterVars, ocrVars, timerVars, storageVars>>

NextAnalyze ==
    \/ \E im \in Images : AnalyzeImageCall(im)
    \/ ImgOnload
    \/ ImgOnerror

SpecAnalyze == Init /\ [][NextAnalyze]_vars

\* C31: analyzeImage settles with an ImageAnalysis for every file and never
\* rejects: once the image's load or error event has run the promise is
\* resolved, and for an image that cannot be decoded the analysis is the
\* neutral one (average brightness 128, no dominant colours).
C31_AnalysisNeverFails ==
    /\ imageAnalysis.state # "rejected"
    /\ image.handled => imageAnalysis.state = "resolved"
    /\ (imageAnalysis.state = "resolved" /\ ~image.decodes)
       => (imageAnalysis.value.averageBrightness = 128 /\ imageAnalysis.value.dominantColors = 0)

(***************************************************************************)
(* SpecStorage: App.handleAddProduct (src/unnamed/part_003:36-43) over     *)
(* storage.addProduct (src/utils/storage.ts:22-26).  Every call reads the  *)
(* persisted list, appends its product to the copy it read and writes the  *)
(* copy back; the persisted list is shared by the calls.                   *)
(***************************************************************************)
storageRest == <<visionVars, aiVars, adapterVars, ocrVars, timerVars, analyzeVars>>

\* The elements of a list.
Range(list) == {list[i] : i \in DOMAIN list}

\* ManualInput's onAddProduct: handleAddProduct(product 0) is called, and
\* storage.addProduct issues its get (storage.ts:23, 15).
OnAddProduct ==
    /\ addPc[0] = "idle"
    /\ addPc' = [addPc EXCEPT ![0] = "get"]
    /\ UNCHANGED <<stored, appProducts, addRead, storageRest>>

\* The onAddProducts handlers (part_003:130-148): newProducts.forEach(
\* handleAddProduct) calls handleAddProduct for each of the n products before
\* any of the calls resumes; each call issues its get.
OnAddProducts(n) ==
    /\ \A a \in 1..MaxNew : addPc[a] = "idle"
    /\ addPc' = [a \in NewProducts |-> IF a \in 1..n THEN "get" ELSE addPc[a]]
    /\ UNCHANGED <<stored, appProducts, addRead, storageRest>>

\* storage.ts:23-25: getProducts resolves with the persisted list; the call
\* pushes its product onto that copy and issues the set.
GetProductsResolves(a) ==
    /\ addPc[a] = "get"
    /\ addRead' = [addRead EXCEPT ![a] = Append(stored, a)]
    /\ addPc' = [addPc EXCEPT ![a] = "set"]
    /\ UNCHANGED <<stored, appProducts, storageRest>>

\* storage.ts:18-19: the set of the call is carried out: the copy replaces
\* the persisted list.
SaveProducts(a) ==
    /\ addPc[a] = "set"
    /\ stored' = addRead[a]
    /\ addPc' = [addPc EXCEPT ![a] = "saved"]
    /\ UNCHANGED <<appProducts, addRead, storageRest>>

\* part_003:38-39: addProduct has resolved; setProducts(prev => [...prev,
\* product]).
SetProducts(a) ==
    /\ addPc[a] = "saved"
    /\ appProducts' = Append(appProducts, a)
    /\ addPc' = [addPc EXCEPT ![a] = "done"]
    /\ UNCHANGED <<stored, addRead, storageRest>>

NextStorage ==
    \/ OnAddProduct
    \/ \E n \in 1..MaxNew : OnAddProducts(n)
    \/ \E a \in NewProducts : GetProductsResolves(a)
    \/ \E a \in NewProducts : SaveProducts(a)
    \/ \E a \in NewProducts : SetProducts(a)

SpecStorage == Init /\ [][NextStorage]_vars

\* C35: once all the storage.addProduct calls started for the products a
\* view handed to App have completed, the persisted list contains all of the
\* new products together with every product stored before, and matches
\* App's in-memory products state.
C35_NoLostProducts ==
    (\A a \in NewProducts : addPc[a] \in {"idle", "done"})
    => /\ Range(stored) = {a \in NewProducts : addPc[a] = "done"}
       /\ Range(stored) = Range(appProducts)

====
